---- MODULE Spec2Model ----
(***************************************************************************)
(* Model of the Primac analytics API: the S3 loader (s3_data_manager.py),  *)
(* the report functions of the four analytics classes and the HTTP         *)
(* endpoints of main.py that wrap them.                                    *)
(*                                                                         *)
(* Spec     one request at a time: an endpoint handler loads its tables    *)
(*          from the object store, runs its report function and answers.   *)
(*          A table is the set of its column names and its row count.      *)
(* SpecBin  the binning call sites (pd.cut followed by value_counts) on    *)
(*          bounded columns of numbers and nulls.                          *)
(***************************************************************************)
EXTENDS Integers, Sequences, FiniteSets, TLC

\* Bounds of the model.
MaxAbsent == 2      \* columns missing from the tables of one request
MaxRows == 1        \* rows of a table in Spec
MaxLen == 3         \* rows of a binned column in SpecBin

VARIABLES
    phase,      \* "idle" | "done": position of the single request
    call,       \* the report function the endpoint called
    store,      \* the objects of the bucket during the request: key -> object
    loaded,     \* keys asked from the store by the request, in order
    joined,     \* joins attempted by the request, in order
    outcome,    \* "none" | "returned" | "raised": how the report function ended
    result,     \* the mapping the report function returned
    message,    \* the message of the exception the report function raised
    response,   \* what the endpoint answered
    site,       \* SpecBin: the binning call site
    column,     \* SpecBin: the binned column, a sequence of cells
    binned,     \* SpecBin: the per-row labels and the reported distribution
    fn,         \* data-level specifications: the function applied
    args,       \* ... the tables and parameters it was applied to
    value       \* ... what it computed

vars == <<phase, call, store, loaded, joined, outcome, result, message,
          response, site, column, binned, fn, args, value>>

binVars == <<site, column, binned>>

fnVars == <<fn, args, value>>

(***************************************************************************)
(* Small helpers of the model.                                             *)
(***************************************************************************)
Range(s) == {s[i] : i \in DOMAIN s}

RECURSIVE SubsetsUpTo(_, _)
SubsetsUpTo(S, k) ==
    IF k = 0 THEN {{}}
    ELSE LET P == SubsetsUpTo(S, k - 1)
         IN  P \cup {p \cup {x} : p \in P, x \in S}

(***************************************************************************)
(* s3_data_manager.py                                                      *)
(***************************************************************************)
\* S3DataManager.__init__: the registry of storage keys.
DataPaths ==
    [mysql |->
        [users |-> "mysql/users/users.csv",
         clients |-> "mysql/clients/clients.csv",
         agents |-> "mysql/agents/agents.csv",
         beneficiaries |-> "mysql/beneficiaries/beneficiaries.csv"],
     postgresql |->
        [products |-> "postgresql/products/products.csv",
         policies |-> "postgresql/policies/policies.csv",
         policy_coverage |-> "postgresql/policy_coverage/policy_coverage.csv",
         policy_beneficiaries |-> "postgresql/beneficiaries/beneficiaries.csv"],
     cassandra |->
        [reclamos |-> "cassandra/reclamos/reclamos.csv",
         pagos |-> "cassandra/pagos/pagos.csv",
         transaction_audit |-> "cassandra/transaction_audit/transaction_audit.csv"]]

\* What get_object / read_csv can do on a key.
ObjectStatus == {"ok", "ClientError", "OtherError"}

\* A loader whose message leaves the key out (the behaviour C3 excludes).
LoadCsvMessageWithoutKey(key, status) ==
    IF status = "ClientError"
    THEN <<"Could not load ", status>>
    ELSE <<"Error processing ", status>>

\* The loader's message names the key in both except branches.
LoadCsvMessage(key, status) ==
    IF status = "ClientError"
    THEN <<"Could not load ", key, ": ", status>>
    ELSE <<"Error processing ", key, ": ", status>>

\* load_csv_from_s3: the data frame of the object, or the exception raised.
LoadCsvFromS3(key, objects) ==
    IF objects[key].status = "ok"
    THEN [ok |-> TRUE, contacted |-> <<key>>, error |-> <<>>,
          df |-> [cols |-> objects[key].cols, rows |-> objects[key].rows]]
    ELSE [ok |-> FALSE, contacted |-> <<key>>,
          error |-> LoadCsvMessage(key, objects[key].status),
          df |-> [cols |-> {}, rows |-> 0]]

\* A getter that asks the store for a table it has no path for (the
\* behaviour C29 excludes).
GetDataContactingStore(db, table, objects) ==
    IF table \notin DOMAIN DataPaths[db]
    THEN [ok |-> FALSE, contacted |-> <<table>>,
          error |-> <<db, " table '", table, "' not found">>,
          df |-> [cols |-> {}, rows |-> 0]]
    ELSE LoadCsvFromS3(DataPaths[db][table], objects)

\* get_mysql_data / get_postgresql_data / get_cassandra_data: an unregistered
\* table raises ValueError before the store is contacted.
GetData(db, table, objects) ==
    IF table \notin DOMAIN DataPaths[db]
    THEN [ok |-> FALSE, contacted |-> <<>>,
          error |-> <<db, " table '", table, "' not found">>,
          df |-> [cols |-> {}, rows |-> 0]]
    ELSE LoadCsvFromS3(DataPaths[db][table], objects)

\* The loads at the head of a report's try block: one after another, the
\* first exception leaves the block.
RECURSIVE LoadInOrder(_, _, _)
LoadInOrder(reqs, objects, i) ==
    IF i > Len(reqs) THEN [loaded |-> <<>>, error |-> <<>>]
    ELSE LET r == GetData(reqs[i][1], reqs[i][2], objects)
         IN  IF r.ok
             THEN LET rest == LoadInOrder(reqs, objects, i + 1)
                  IN  [loaded |-> r.contacted \o rest.loaded, error |-> rest.error]
             ELSE [loaded |-> r.contacted, error |-> r.error]

Df(db, table, objects) == GetData(db, table, objects).df

(***************************************************************************)
(* pandas.merge on column sets.                                            *)
(***************************************************************************)
\* left_on / right_on with different names: both key columns are kept and
\* every name the two frames share gets its side's suffix.
MergeCols(L, R, sl, sr) ==
    {IF c \in R THEN c \o sl ELSE c : c \in L} \cup
    {IF c \in L THEN c \o sr ELSE c : c \in R}

\* on=key: the key appears once, the other shared names are suffixed.
MergeOnCols(L, R, key, sl, sr) ==
    {key} \cup MergeCols(L \ {key}, R \ {key}, sl, sr)

(***************************************************************************)
(* Outcomes of a report function.                                          *)
(***************************************************************************)
NoResult == [kind |-> "none", sections |-> {}, error |-> "", note |-> "",
             totals |-> <<>>]

\* return <mapping>
Returned(res, js) ==
    [outcome |-> "returned", result |-> res, message |-> <<>>, joined |-> js]

\* An except block that returns the message as a mapping instead of raising
\* (the behaviour C2 as amended excludes).
RaisedAsErrorMapping(prefix, inner, js) ==
    [outcome |-> "returned",
     result |-> [kind |-> "error", sections |-> {}, error |-> prefix, note |-> "",
                 totals |-> <<>>],
     message |-> <<>>, joined |-> js]

\* except Exception as e: raise Exception(f"Error analyzing ...: {str(e)}")
Raised(prefix, inner, js) ==
    [outcome |-> "raised", result |-> NoResult,
     message |-> <<prefix>> \o inner, joined |-> js]

ErrorMapping(text) ==
    [kind |-> "error", sections |-> {}, error |-> text, note |-> "",
     totals |-> <<>>]

Report(sections) ==
    [kind |-> "report", sections |-> sections, error |-> "", note |-> "",
     totals |-> <<>>]

KeyError(col) == <<"KeyError ", col>>

\* The first column of cols, in the order the code names them, that df lacks.
RECURSIVE FirstMissing(_, _, _)
FirstMissing(cols, have, i) ==
    IF i > Len(cols) THEN ""
    ELSE IF cols[i] \notin have THEN cols[i]
    ELSE FirstMissing(cols, have, i + 1)

(***************************************************************************)
(* cross_microservice_analytics.py                                         *)
(***************************************************************************)
CustomerProfileLoads ==
    << <<"mysql", "users">>, <<"mysql", "clients">>, <<"postgresql", "policies">> >>

\* if 'id' in users_df.columns and 'user_id' in clients_df.columns
CanJoinUsersClients(users, clients) ==
    "id" \in users.cols /\ "user_id" \in clients.cols

\* user_client_df: inner merge of users and clients.
UserClientCols(users, clients) ==
    MergeCols(users.cols, clients.cols, "_user", "_client")

\* A second-hop guard that looks at the left key only (the behaviour C5 as
\* amended excludes).
CanJoinClientsPoliciesLeftKeyOnly(uc, policies) ==
    "user_id" \in uc

\* if 'user_id' in user_client_df.columns and 'customer_id' in policies_df.columns
CanJoinClientsPolicies(uc, policies) ==
    "user_id" \in uc /\ "customer_id" \in policies.cols

\* full_profile: left merge of user_client_df and policies.
FullProfileCols(users, clients, policies) ==
    MergeCols(UserClientCols(users, clients), policies.cols, "", "_policy")

JoinUsersClients ==
    [left |-> "users", right |-> "clients", left_on |-> "id", right_on |-> "user_id"]

JoinClientsPolicies ==
    [left |-> "user_client", right |-> "policies",
     left_on |-> "user_id", right_on |-> "customer_id"]

\* get_customer_policy_profile after its loads.
CustomerPolicyProfileBody(users, clients, policies) ==
    LET prefix == "Error analyzing customer policy profiles: "
        uc == UserClientCols(users, clients)
        fp == FullProfileCols(users, clients, policies)
        j1 == <<JoinUsersClients>>
        j2 == <<JoinUsersClients, JoinClientsPolicies>>
        stateAgg == FirstMissing(<<"policy_number", "premium", "sum_insured">>, fp, 1)
        ageAgg == FirstMissing(<<"policy_number", "premium">>, fp, 1)
        sections ==
            {"summary", "data_sources"}
            \cup (IF "state" \in fp THEN {"by_state"} ELSE {})
            \cup (IF "birth_date" \in fp THEN {"by_age_group"} ELSE {})
            \cup (IF "premium" \in fp THEN {"customer_value_analysis"} ELSE {})
    IN  IF ~CanJoinUsersClients(users, clients)
        THEN Returned(ErrorMapping("Cannot join users and clients - missing key columns"), <<>>)
        ELSE IF ~CanJoinClientsPolicies(uc, policies)
        THEN Returned(ErrorMapping("Cannot join clients with policies - missing customer_id"), j1)
        ELSE IF "policy_number" \notin fp
        THEN Raised(prefix, KeyError("policy_number"), j2)
        ELSE IF "state" \in fp /\ stateAgg # ""
        THEN Raised(prefix, KeyError(stateAgg), j2)
        ELSE IF "birth_date" \in fp /\ ageAgg # ""
        THEN Raised(prefix, KeyError(ageAgg), j2)
        ELSE Returned(Report(sections), j2)

\* get_customer_policy_profile.
GetCustomerPolicyProfile(objects) ==
    LET ld == LoadInOrder(CustomerProfileLoads, objects, 1)
        r  == IF ld.error # <<>>
              THEN Raised("Error analyzing customer policy profiles: ", ld.error, <<>>)
              ELSE CustomerPolicyProfileBody(Df("mysql", "users", objects),
                                             Df("mysql", "clients", objects),
                                             Df("postgresql", "policies", objects))
    IN  [loaded |-> ld.loaded] @@ r

AgentPerformanceLoads ==
    << <<"mysql", "agents">>, <<"postgresql", "policies">>, <<"postgresql", "products">> >>

\* if 'code' in agents_df.columns and 'agent_id' in policies_df.columns
CanJoinAgentsPolicies(agents, policies) ==
    "code" \in agents.cols /\ "agent_id" \in policies.cols

\* agent_policies: left merge of agents and policies.
AgentPoliciesCols(agents, policies) ==
    MergeCols(agents.cols, policies.cols, "_agent", "_policy")

\* if 'product_id' in agent_policies.columns and 'code' in products_df.columns
CanJoinAgentProducts(ap, products) ==
    "product_id" \in ap /\ "code" \in products.cols

\* full_agent_data: agent_policies merged with products, or agent_policies.
FullAgentDataCols(agents, policies, products) ==
    LET ap == AgentPoliciesCols(agents, policies)
    IN  IF CanJoinAgentProducts(ap, products)
        THEN MergeCols(ap, products.cols, "", "_product")
        ELSE ap

\* The keys of the agent groupby.
AgentGroupKeys == <<"code_agent", "first_name", "last_name", "is_active">>

\* The columns its agg dict names.
AgentAggCols == <<"policy_number", "premium", "sum_insured", "product_id">>

JoinAgentsPolicies ==
    [left |-> "agents", right |-> "policies", left_on |-> "code", right_on |-> "agent_id"]

JoinAgentProducts ==
    [left |-> "agent_policies", right |-> "products",
     left_on |-> "product_id", right_on |-> "code"]

\* get_agent_performance_across_systems after its loads.
AgentPerformanceBody(agents, policies, products) ==
    LET prefix == "Error analyzing agent performance: "
        ap == AgentPoliciesCols(agents, policies)
        full == FullAgentDataCols(agents, policies, products)
        j2 == IF CanJoinAgentProducts(ap, products)
              THEN <<JoinAgentsPolicies, JoinAgentProducts>>
              ELSE <<JoinAgentsPolicies>>
        missing == FirstMissing(AgentGroupKeys \o AgentAggCols, full, 1)
    IN  IF ~CanJoinAgentsPolicies(agents, policies)
        THEN Returned(ErrorMapping("Cannot join agents with policies - missing key columns"), <<>>)
        ELSE IF missing # ""
        THEN Raised(prefix, KeyError(missing), j2)
        ELSE Returned(Report({"summary", "top_performers", "data_sources"}), j2)

\* get_agent_performance_across_systems.
GetAgentPerformanceAcrossSystems(objects) ==
    LET ld == LoadInOrder(AgentPerformanceLoads, objects, 1)
        r  == IF ld.error # <<>>
              THEN Raised("Error analyzing agent performance: ", ld.error, <<>>)
              ELSE AgentPerformanceBody(Df("mysql", "agents", objects),
                                        Df("postgresql", "policies", objects),
                                        Df("postgresql", "products", objects))
    IN  [loaded |-> ld.loaded] @@ r

\* _analyze_separate_claims_policies: totals of both frames, a monthly series
\* for each frame that has its date column, the claims break-downs.
AnalyzeSeparateClaimsPolicies(policies, claims) ==
    [kind |-> "separate",
     sections |->
        {"summary", "data_sources"}
        \cup (IF "created_at" \in policies.cols THEN {"monthly_policies"} ELSE {})
        \cup (IF "fecha_reclamo" \in claims.cols THEN {"monthly_claims"} ELSE {})
        \cup (IF "estado" \in claims.cols THEN {"claims_by_status"} ELSE {})
        \cup (IF "monto" \in claims.cols THEN {"total_claims_amount", "avg_claim_amount"} ELSE {}),
     error |-> "",
     note |-> "Analysis performed separately - no direct JOIN possible",
     totals |-> [total_policies |-> policies.rows, total_claims |-> claims.rows]]

ClaimsVsPoliciesLoads ==
    << <<"postgresql", "policies">>, <<"cassandra", "reclamos">>, <<"postgresql", "products">> >>

\* if 'product_id' in policies_df.columns and 'code' in products_df.columns
CanJoinPoliciesProducts(policies, products) ==
    "product_id" \in policies.cols /\ "code" \in products.cols

\* policies_with_products: a left merge on the product code (it keeps the
\* policies' row count, one product per code), or policies_df itself.
PoliciesWithProducts(policies, products) ==
    IF CanJoinPoliciesProducts(policies, products)
    THEN [cols |-> MergeCols(policies.cols, products.cols, "_policy", "_product"),
          rows |-> policies.rows]
    ELSE policies

\* The frame whose columns the guard of the policies-claims join reads:
\* policies_df as loaded, not policies_with_products, the frame that is joined.
ClaimsJoinGuardFrame(policies, pwp) == policies

JoinPoliciesProducts ==
    [left |-> "policies", right |-> "products",
     left_on |-> "product_id", right_on |-> "code"]

JoinClaimsById ==
    [left |-> "policies_with_products", right |-> "reclamos",
     left_on |-> "id", right_on |-> "policy_id"]

JoinClaimsByNumber ==
    [left |-> "policies_with_products", right |-> "reclamos",
     left_on |-> "policy_number", right_on |-> "policy_number"]

\* The siniestrality analysis of the joined frame claims_policies.
ClaimsPoliciesAnalysis(cp, js) ==
    LET prefix == "Error analyzing claims vs policies: "
        grouped == "name_product" \in cp /\ "estado" \in cp
        missing == FirstMissing(<<"policy_number_policy", "estado", "monto">>, cp, 1)
        sections ==
            {"summary", "data_sources"}
            \cup (IF grouped THEN {"product_analysis"} ELSE {})
            \cup (IF "monto" \in cp /\ "premium" \in cp
                  THEN {"financial_analysis"} ELSE {})
    IN  IF grouped /\ missing # ""
        THEN Raised(prefix, KeyError(missing), js)
        ELSE Returned(Report(sections), js)

\* get_claims_vs_policies_analysis after its loads.
ClaimsVsPoliciesBody(policies, claims, products) ==
    LET prefix == "Error analyzing claims vs policies: "
        pwp == PoliciesWithProducts(policies, products)
        j1 == IF CanJoinPoliciesProducts(policies, products)
              THEN <<JoinPoliciesProducts>> ELSE <<>>
        guarded == ClaimsJoinGuardFrame(policies, pwp)
        cpId == MergeCols(pwp.cols, claims.cols, "_policy", "_claim")
        cpNumber == MergeOnCols(pwp.cols, claims.cols, "policy_number", "_policy", "_claim")
    IN  IF "id" \in guarded.cols
        THEN IF "policy_id" \in claims.cols
             THEN IF "id" \in pwp.cols
                  THEN ClaimsPoliciesAnalysis(cpId, j1 \o <<JoinClaimsById>>)
                  ELSE Raised(prefix, KeyError("id"), j1 \o <<JoinClaimsById>>)
             ELSE IF "policy_number" \in claims.cols
             THEN IF "policy_number" \in pwp.cols
                  THEN ClaimsPoliciesAnalysis(cpNumber, j1 \o <<JoinClaimsByNumber>>)
                  ELSE Raised(prefix, KeyError("policy_number"), j1 \o <<JoinClaimsByNumber>>)
             ELSE Returned(AnalyzeSeparateClaimsPolicies(pwp, claims), j1)
        ELSE Returned(AnalyzeSeparateClaimsPolicies(pwp, claims), j1)

\* get_claims_vs_policies_analysis.
GetClaimsVsPoliciesAnalysis(objects) ==
    LET ld == LoadInOrder(ClaimsVsPoliciesLoads, objects, 1)
        r  == IF ld.error # <<>>
              THEN Raised("Error analyzing claims vs policies: ", ld.error, <<>>)
              ELSE ClaimsVsPoliciesBody(Df("postgresql", "policies", objects),
                                        Df("cassandra", "reclamos", objects),
                                        Df("postgresql", "products", objects))
    IN  [loaded |-> ld.loaded] @@ r

(***************************************************************************)
(* cassandra_s3_analytics.py                                               *)
(***************************************************************************)
\* get_claims_analysis: every column it reads is guarded.
GetClaimsAnalysis(objects) ==
    LET ld == LoadInOrder(<< <<"cassandra", "reclamos">> >>, objects, 1)
        claims == Df("cassandra", "reclamos", objects)
        sections ==
            {"total_claims", "data_quality"}
            \cup (IF "estado" \in claims.cols THEN {"status_distribution"} ELSE {})
            \cup (IF "monto" \in claims.cols THEN {"amount_statistics"} ELSE {})
            \cup (IF "fecha_reclamo" \in claims.cols THEN {"temporal_analysis"} ELSE {})
            \cup (IF "tipo_reclamo" \in claims.cols THEN {"type_analysis"} ELSE {})
        r == IF ld.error # <<>>
             THEN Raised("Error analyzing claims: ", ld.error, <<>>)
             ELSE Returned(Report(sections), <<>>)
    IN  [loaded |-> ld.loaded] @@ r

ClaimsPaymentsLoads ==
    << <<"cassandra", "reclamos">>, <<"cassandra", "pagos">> >>

\* get_claims_payments_correlation after its loads: value_counts() of a
\* weekday column without rows is empty and idxmax() of it raises ValueError.
ClaimsPaymentsBody(claims, payments) ==
    LET prefix == "Error analyzing claims-payments correlation: "
        dated == "fecha_reclamo" \in claims.cols /\ "fecha_pago" \in payments.cols
        amounts == "monto" \in claims.cols /\ "monto" \in payments.cols
        sections ==
            {"general_statistics", "insights", "data_sources"}
            \cup (IF dated THEN {"monthly_comparison", "weekday_analysis"} ELSE {})
            \cup (IF amounts THEN {"amount_range_analysis"} ELSE {})
    IN  IF dated /\ (claims.rows = 0 \/ payments.rows = 0)
        THEN Raised(prefix, <<"ValueError ", "attempt to get argmax of an empty sequence">>, <<>>)
        ELSE Returned(Report(sections), <<>>)

\* get_claims_payments_correlation.
GetClaimsPaymentsCorrelation(objects) ==
    LET ld == LoadInOrder(ClaimsPaymentsLoads, objects, 1)
        r  == IF ld.error # <<>>
              THEN Raised("Error analyzing claims-payments correlation: ", ld.error, <<>>)
              ELSE ClaimsPaymentsBody(Df("cassandra", "reclamos", objects),
                                      Df("cassandra", "pagos", objects))
    IN  [loaded |-> ld.loaded] @@ r

(***************************************************************************)
(* postgresql_s3_analytics.py                                              *)
(***************************************************************************)
\* get_product_analysis: every column it reads is guarded.
GetProductAnalysis(objects) ==
    LET ld == LoadInOrder(<< <<"postgresql", "products">> >>, objects, 1)
        products == Df("postgresql", "products", objects)
        sections ==
            {"total_products", "data_completeness"}
            \cup (IF "product_type" \in products.cols THEN {"product_types"} ELSE {})
            \cup (IF "base_premium" \in products.cols THEN {"premium_statistics"} ELSE {})
            \cup (IF "code" \in products.cols THEN {"code_analysis"} ELSE {})
            \cup (IF "name" \in products.cols
                     \/ ("description" \in products.cols /\ products.rows > 0)
                  THEN {"text_analysis"} ELSE {})
        r == IF ld.error # <<>>
             THEN Raised("Error analyzing products: ", ld.error, <<>>)
             ELSE Returned(Report(sections), <<>>)
    IN  [loaded |-> ld.loaded] @@ r

ProfitabilityLoads ==
    << <<"postgresql", "products">>, <<"postgresql", "policies">> >>

\* if 'product_id' in policies_df.columns and 'code' in products_df.columns
CanJoinProfitability(products, policies) ==
    "product_id" \in policies.cols /\ "code" \in products.cols

\* merged_df: inner merge without a suffixes argument (pandas' _x / _y).
ProfitabilityMergedCols(products, policies) ==
    MergeCols(policies.cols, products.cols, "_x", "_y")

\* The keys of the product groupby.
ProductGroupKeys == <<"product_id", "name">>

\* The columns its agg dict names.
ProductAggCols == <<"policy_number", "premium", "sum_insured", "base_premium">>

\* get_product_profitability_analysis after its loads.
ProductProfitabilityBody(products, policies) ==
    LET prefix == "Error analyzing product profitability: "
        merged == ProfitabilityMergedCols(products, policies)
        missing == FirstMissing(ProductGroupKeys \o ProductAggCols, merged, 1)
    IN  IF ~CanJoinProfitability(products, policies)
        THEN Returned(ErrorMapping("Required columns not found for product profitability analysis"), <<>>)
        ELSE IF missing # ""
        THEN Raised(prefix, KeyError(missing), <<JoinPoliciesProducts>>)
        ELSE Returned(Report({"summary", "top_products_by_volume", "top_products_by_premium",
                              "top_products_by_efficiency", "product_performance_matrix"}),
                      <<JoinPoliciesProducts>>)

\* get_product_profitability_analysis.
GetProductProfitabilityAnalysis(objects) ==
    LET ld == LoadInOrder(ProfitabilityLoads, objects, 1)
        r  == IF ld.error # <<>>
              THEN Raised("Error analyzing product profitability: ", ld.error, <<>>)
              ELSE ProductProfitabilityBody(Df("postgresql", "products", objects),
                                            Df("postgresql", "policies", objects))
    IN  [loaded |-> ld.loaded] @@ r

(***************************************************************************)
(* Binning: pd.cut and value_counts at the call sites.                     *)
(* A cell is <<>> (null / NaN / NaT) or <<v>>; an edge is <<e>> or <<>>    *)
(* for float('inf'); a label is <<l>> or <<>> when pd.cut gives NaN.       *)
(***************************************************************************)
Null == <<>>
Inf == <<>>
IsNull(cell) == cell = <<>>

AmountBins == << <<0>>, <<1000>>, <<5000>>, <<10000>>, <<50000>>, Inf >>
AmountLabels == <<"< 1K", "1K-5K", "5K-10K", "10K-50K", "50K+">>

PremiumBins == << <<0>>, <<100>>, <<500>>, <<1000>>, <<5000>>, Inf >>
PremiumLabels == <<"< 100", "100-499", "500-999", "1000-4999", "5000+">>

AgeBins == << <<0>>, <<25>>, <<35>>, <<45>>, <<55>>, <<65>>, <<100>> >>
AgeLabels == <<"<25", "25-34", "35-44", "45-54", "55-64", "65+">>

\* bins.searchsorted(x, side='left'): the number of edges below x.
SearchSortedLeft(bins, x) ==
    Cardinality({i \in DOMAIN bins : bins[i] # Inf /\ bins[i][1] < x})

\* pd.cut(x, bins, labels, right=True, include_lowest) of one cell.
PdCut(cell, bins, labels, include_lowest) ==
    IF IsNull(cell) THEN <<>>
    ELSE LET x == cell[1]
             found == SearchSortedLeft(bins, x)
             ids == IF include_lowest /\ x = bins[1][1] THEN 1 ELSE found
         IN  IF ids = 0 \/ ids = Len(bins) THEN <<>> ELSE <<labels[ids]>>

\* cut of a whole column, row by row.
CutColumn(col, bins, labels, include_lowest) ==
    [i \in DOMAIN col |-> PdCut(col[i], bins, labels, include_lowest)]

\* A value_counts() that keeps only the labels that occur (the behaviour C10
\* as amended excludes).
ValueCountsObservedOnly(rowLabels, labels) ==
    [l \in {m \in Range(labels) : \E i \in DOMAIN rowLabels : rowLabels[i] = <<m>>} |->
        Cardinality({i \in DOMAIN rowLabels : rowLabels[i] = <<l>>})]

\* value_counts() of a categorical column, as a dict keyed by str(label):
\* every category has an entry, NaN rows are not counted.
ValueCounts(rowLabels, labels) ==
    [l \in Range(labels) |-> Cardinality({i \in DOMAIN rowLabels : rowLabels[i] = <<l>>})]

\* (~column.isnull()).sum()
NotNullCount(col) == Cardinality({i \in DOMAIN col : ~IsNull(col[i])})

\* (datetime.now() - birth_date).dt.days // 365, the cell holding the days
\* elapsed since the birth date.
AgeOf(cell) == IF IsNull(cell) THEN Null ELSE <<cell[1] \div 365>>

IncludeLowestClaimsAnalysis == TRUE
IncludeLowestCorrelation == FALSE
IncludeLowestProducts == TRUE
IncludeLowestAges == TRUE

\* get_claims_analysis: the cut is taken of the non-null amounts and assigned
\* back by index, so a null row gets NaN.
ClaimsAmountDistribution(col) ==
    LET rowLabels == CutColumn(col, AmountBins, AmountLabels, IncludeLowestClaimsAnalysis)
    IN  [rowLabels |-> rowLabels,
         dist |-> ValueCounts(rowLabels, AmountLabels),
         withValue |-> NotNullCount(col)]

\* get_claims_payments_correlation: the same ranges for claims and payments.
CorrelationAmountRanges(col) ==
    LET rowLabels == CutColumn(col, AmountBins, AmountLabels, IncludeLowestCorrelation)
    IN  [rowLabels |-> rowLabels,
         dist |-> ValueCounts(rowLabels, AmountLabels),
         withValue |-> NotNullCount(col)]

\* get_product_analysis: ranges of base_premium.
PremiumDistribution(col) ==
    LET rowLabels == CutColumn(col, PremiumBins, PremiumLabels, IncludeLowestProducts)
    IN  [rowLabels |-> rowLabels,
         dist |-> ValueCounts(rowLabels, PremiumLabels),
         withValue |-> NotNullCount(col)]

\* get_customer_policy_profile and get_client_demographics: age groups.
AgeDistribution(col) ==
    LET ages == [i \in DOMAIN col |-> AgeOf(col[i])]
        rowLabels == CutColumn(ages, AgeBins, AgeLabels, IncludeLowestAges)
    IN  [rowLabels |-> rowLabels,
         dist |-> ValueCounts(rowLabels, AgeLabels),
         withValue |-> NotNullCount(col)]

\* The values the binned columns are drawn from: every edge, a value inside
\* every range, a value below the first edge and one above the last finite one.
AmountSamples == {-5, 0, 500, 1000, 1500, 5000, 7000, 10000, 12000, 50000, 60000}
PremiumSamples == {-5, 0, 50, 100, 300, 500, 700, 1000, 3000, 5000, 9000}
DaySamples == {-400, 0, 9124, 9125, 9490, 12775, 16425, 20075, 23725, 36500, 36864, 36865, 40000}

RECURSIVE SeqsUpTo(_, _)
SeqsUpTo(S, n) ==
    IF n = 0 THEN {<<>>}
    ELSE LET P == SeqsUpTo(S, n - 1)
         IN  P \cup {Append(p, x) : p \in {q \in P : Len(q) = n - 1}, x \in S}

Columns(samples) == SeqsUpTo({Null} \cup {<<v>> : v \in samples}, MaxLen)

\* The claims table of the concrete scenario.
ScenarioAmounts == << <<500>>, <<1500>>, <<7000>>, <<12000>> >>

Bin(name, col, out) ==
    /\ phase' = "done"
    /\ site' = name
    /\ column' = col
    /\ binned' = out
    /\ UNCHANGED <<call, store, loaded, joined, outcome, result, message, response>>
    /\ UNCHANGED fnVars

\* cassandra_s3_analytics.py, get_claims_analysis
BinClaimsAnalysisAmounts ==
    /\ phase = "idle"
    /\ \E col \in Columns(AmountSamples) \cup {ScenarioAmounts} :
         Bin("claims_analysis.monto", col, ClaimsAmountDistribution(col))

\* cassandra_s3_analytics.py, get_claims_payments_correlation
BinCorrelationAmounts ==
    /\ phase = "idle"
    /\ \E col \in Columns(AmountSamples) :
       \E name \in {"claims_payments.claims_monto", "claims_payments.payments_monto"} :
         Bin(name, col, CorrelationAmountRanges(col))

\* postgresql_s3_analytics.py, get_product_analysis
BinBasePremiums ==
    /\ phase = "idle"
    /\ \E col \in Columns(PremiumSamples) :
         Bin("product_analysis.base_premium", col, PremiumDistribution(col))

\* cross_microservice_analytics.py, get_customer_policy_profile
BinCustomerAges ==
    /\ phase = "idle"
    /\ \E col \in Columns(DaySamples) :
         Bin("customer_policy_profile.age", col, AgeDistribution(col))

\* mysql_s3_analytics.py, get_client_demographics
BinClientAges ==
    /\ phase = "idle"
    /\ \E col \in Columns(DaySamples) :
         Bin("client_demographics.age", col, AgeDistribution(col))

(***************************************************************************)
(* The column names the reports refer to, per table.                       *)
(***************************************************************************)
Schema ==
    [users    |-> {"id", "state"},
     clients  |-> {"user_id", "birth_date"},
     agents   |-> {"code", "first_name", "last_name", "is_active"},
     policies |-> {"id", "customer_id", "agent_id", "product_id", "policy_number",
                   "premium", "sum_insured", "created_at", "code", "name"},
     products |-> {"id", "code", "name", "base_premium", "product_type",
                   "description"},
     reclamos |-> {"policy_id", "policy_number", "estado", "monto",
                   "fecha_reclamo", "tipo_reclamo"},
     pagos    |-> {"monto", "fecha_pago"}]

KeyOf(table) ==
    IF table \in DOMAIN DataPaths.mysql THEN DataPaths.mysql[table]
    ELSE IF table \in DOMAIN DataPaths.postgresql THEN DataPaths.postgresql[table]
    ELSE DataPaths.cassandra[table]

\* The bucket contents a request over `tables` can meet: every object is
\* readable or fails; the readable tables lack at most MaxAbsent columns in
\* all and have at most MaxRows rows each.
AbsentChoices(tables) ==
    SubsetsUpTo(UNION {{<<t, c>> : c \in Schema[t]} : t \in tables}, MaxAbsent)

Statuses(tables) == [tables -> ObjectStatus]

Readable(tables, st) == {t \in tables : st[t] = "ok"}

RowCounts(tables, st) ==
    {f \in [tables -> 0..MaxRows] : \A t \in tables : st[t] # "ok" => f[t] = 0}

\* The bucket during one request: object status st, absent columns D, row counts rw.
Bucket(tables, st, D, rw) ==
    [k \in {KeyOf(t) : t \in tables} |->
        LET t == CHOOSE u \in tables : KeyOf(u) = k
        IN  IF st[t] = "ok"
            THEN [status |-> "ok",
                  cols |-> Schema[t] \ {p[2] : p \in {q \in D : q[1] = t}},
                  rows |-> rw[t]]
            ELSE [status |-> st[t], cols |-> {}, rows |-> 0]]

(***************************************************************************)
(* main.py: the endpoints.                                                 *)
(***************************************************************************)
\* An endpoint that answers an {"error": ...} mapping with a failure status
\* (the behaviour C30 excludes).
EndpointFailingOnErrorMapping(r) ==
    IF r.outcome = "raised"
    THEN [status |-> 500, detail |-> r.message, body |-> NoResult]
    ELSE IF r.result.kind = "error"
    THEN [status |-> 500, detail |-> <<r.result.error>>, body |-> NoResult]
    ELSE [status |-> 200, detail |-> <<>>, body |-> r.result]

\* try: return report()  except Exception as e: raise HTTPException(500, str(e))
Endpoint(r) ==
    IF r.outcome = "raised"
    THEN [status |-> 500, detail |-> r.message, body |-> NoResult]
    ELSE [status |-> 200, detail |-> <<>>, body |-> r.result]

Handle(name, objects, r) ==
    /\ phase' = "done"
    /\ call' = name
    /\ store' = objects
    /\ loaded' = r.loaded
    /\ joined' = r.joined
    /\ outcome' = r.outcome
    /\ result' = r.result
    /\ message' = r.message
    /\ response' = Endpoint(r)
    /\ UNCHANGED binVars
    /\ UNCHANGED fnVars

\* GET /cross/analytics/customer-policy-profile
get_cross_customer_policy_profile ==
    /\ phase = "idle"
    /\ \E st \in Statuses({"users", "clients", "policies"}) :
       \E D \in AbsentChoices(Readable({"users", "clients", "policies"}, st)) :
       \E rw \in RowCounts({"users", "clients", "policies"}, st) :
         LET objects == Bucket({"users", "clients", "policies"}, st, D, rw)
         IN  Handle("get_customer_policy_profile", objects, GetCustomerPolicyProfile(objects))

\* GET /cross/analytics/agent-performance
get_cross_agent_performance ==
    /\ phase = "idle"
    /\ \E st \in Statuses({"agents", "policies", "products"}) :
       \E D \in AbsentChoices(Readable({"agents", "policies", "products"}, st)) :
       \E rw \in RowCounts({"agents", "policies", "products"}, st) :
         LET objects == Bucket({"agents", "policies", "products"}, st, D, rw)
         IN  Handle("get_agent_performance_across_systems", objects,
               GetAgentPerformanceAcrossSystems(objects))

\* GET /cross/analytics/claims-vs-policies
get_cross_claims_vs_policies ==
    /\ phase = "idle"
    /\ \E st \in Statuses({"policies", "reclamos", "products"}) :
       \E D \in AbsentChoices(Readable({"policies", "reclamos", "products"}, st)) :
       \E rw \in RowCounts({"policies", "reclamos", "products"}, st) :
         LET objects == Bucket({"policies", "reclamos", "products"}, st, D, rw)
         IN  Handle("get_claims_vs_policies_analysis", objects,
               GetClaimsVsPoliciesAnalysis(objects))

\* GET /cassandra/analytics/claims
get_cassandra_claims_analysis ==
    /\ phase = "idle"
    /\ \E st \in Statuses({"reclamos"}) :
       \E D \in AbsentChoices(Readable({"reclamos"}, st)) :
       \E rw \in RowCounts({"reclamos"}, st) :
         LET objects == Bucket({"reclamos"}, st, D, rw)
         IN  Handle("get_claims_analysis", objects, GetClaimsAnalysis(objects))

\* GET /cassandra/analytics/claims-payments-correlation
get_cassandra_claims_payments_correlation ==
    /\ phase = "idle"
    /\ \E st \in Statuses({"reclamos", "pagos"}) :
       \E D \in AbsentChoices(Readable({"reclamos", "pagos"}, st)) :
       \E rw \in RowCounts({"reclamos", "pagos"}, st) :
         LET objects == Bucket({"reclamos", "pagos"}, st, D, rw)
         IN  Handle("get_claims_payments_correlation", objects,
               GetClaimsPaymentsCorrelation(objects))

\* GET /postgresql/analytics/products
get_postgresql_product_analysis ==
    /\ phase = "idle"
    /\ \E st \in Statuses({"products"}) :
       \E D \in AbsentChoices(Readable({"products"}, st)) :
       \E rw \in RowCounts({"products"}, st) :
         LET objects == Bucket({"products"}, st, D, rw)
         IN  Handle("get_product_analysis", objects, GetProductAnalysis(objects))

\* GET /postgresql/analytics/product-profitability
get_postgresql_product_profitability ==
    /\ phase = "idle"
    /\ \E st \in Statuses({"products", "policies"}) :
       \E D \in AbsentChoices(Readable({"products", "policies"}, st)) :
       \E rw \in RowCounts({"products", "policies"}, st) :
         LET objects == Bucket({"products", "policies"}, st, D, rw)
         IN  Handle("get_product_profitability_analysis", objects,
               GetProductProfitabilityAnalysis(objects))

NoResponse == [status |-> 0, detail |-> <<>>, body |-> NoResult]

Idle ==
    /\ phase = "idle"
    /\ call = ""
    /\ store = <<>>
    /\ loaded = <<>>
    /\ joined = <<>>
    /\ outcome = "none"
    /\ result = NoResult
    /\ message = <<>>
    /\ response = NoResponse

\* The response has been sent; nothing of the request is kept.
Finish ==
    /\ phase = "done"
    /\ phase' = "idle"
    /\ call' = ""
    /\ store' = <<>>
    /\ loaded' = <<>>
    /\ joined' = <<>>
    /\ outcome' = "none"
    /\ result' = NoResult
    /\ message' = <<>>
    /\ response' = NoResponse
    /\ site' = ""
    /\ column' = <<>>
    /\ binned' = <<>>
    /\ fn' = ""
    /\ args' = <<>>
    /\ value' = <<>>

BinIdle ==
    /\ site = ""
    /\ column = <<>>
    /\ binned = <<>>

FnIdle ==
    /\ fn = ""
    /\ args = <<>>
    /\ value = <<>>

Init == Idle /\ BinIdle /\ FnIdle

Next ==
    \/ get_cross_customer_policy_profile
    \/ get_cross_agent_performance
    \/ get_cross_claims_vs_policies
    \/ get_cassandra_claims_analysis
    \/ get_cassandra_claims_payments_correlation
    \/ get_postgresql_product_analysis
    \/ get_postgresql_product_profitability
    \/ Finish

Spec == Init /\ [][Next]_vars

NextBin ==
    \/ BinClaimsAnalysisAmounts
    \/ BinCorrelationAmounts
    \/ BinBasePremiums
    \/ BinCustomerAges
    \/ BinClientAges
    \/ Finish

SpecBin == Init /\ [][NextBin]_vars

(***************************************************************************)
(* Properties.                                                             *)
(***************************************************************************)
Done == phase = "done"
Called == Done /\ call # ""
AllLoaded == Called /\ \A k \in DOMAIN store : store[k].status = "ok"
LoadFailed == Called /\ \E k \in DOMAIN store : store[k].status # "ok"
Table(t) == store[KeyOf(t)]

StorageKeys ==
    UNION {{DataPaths[db][t] : t \in DOMAIN DataPaths[db]} : db \in DOMAIN DataPaths}

\* C1: on tables that all loaded, whatever columns are absent and whatever
\* the row counts, every report function returns a result and does not raise.
C1_LoadedTablesNeverRaise ==
    AllLoaded => outcome = "returned"

C3_LoadFailureNamesTheKey ==
    LoadFailed =>
        /\ loaded # <<>>
        /\ store[loaded[Len(loaded)]].status # "ok"
        /\ \A i \in 1..(Len(loaded) - 1) : store[loaded[i]].status = "ok"
        /\ Range(message) \cap StorageKeys = {loaded[Len(loaded)]}
        /\ result = NoResult
        /\ response.status = 500
        /\ response.detail = message
        /\ response.body = NoResult

C3_Witness ==
    /\ LoadFailed
    /\ Len(loaded) = 2
    /\ Cardinality({k \in DOMAIN store : store[k].status # "ok"}) = 2
    /\ response.status = 500

\* C4: in get_claims_vs_policies_analysis the policies-claims join is
\* attempted only on a key that the joined left frame (policies_with_products)
\* and the claims table both have; otherwise the separate analysis is
\* returned (totals, a monthly series per table that has its date column, the
\* note) and nothing is raised.
C4_ClaimsJoinOnlyOnPresentKeys ==
    (AllLoaded /\ call = "get_claims_vs_policies_analysis") =>
        LET claims == Table("reclamos")
            pwp == PoliciesWithProducts(Table("policies"), Table("products"))
            byId == "id" \in pwp.cols /\ "policy_id" \in claims.cols
            byNumber == "policy_number" \in pwp.cols /\ "policy_number" \in claims.cols
        IN  /\ \A j \in Range(joined) :
                  j.right = "reclamos" =>
                      j.left_on \in pwp.cols /\ j.right_on \in claims.cols
            /\ ~(byId \/ byNumber) =>
                  /\ outcome = "returned"
                  /\ result.kind = "separate"
                  /\ result.note # ""
                  /\ result.totals = [total_policies |-> pwp.rows,
                                      total_claims |-> claims.rows]
                  /\ ("monthly_policies" \in result.sections) = ("created_at" \in pwp.cols)
                  /\ ("monthly_claims" \in result.sections) = ("fecha_reclamo" \in claims.cols)

\* The hop keys of the three chained reports, read off the loaded tables.
CustomerHop1Absent ==
    "id" \notin Table("users").cols \/ "user_id" \notin Table("clients").cols

CustomerHop2Absent ==
    \/ "user_id" \notin UserClientCols(Table("users"), Table("clients"))
    \/ "customer_id" \notin Table("policies").cols

AgentHop1Absent ==
    "code" \notin Table("agents").cols \/ "agent_id" \notin Table("policies").cols

AgentHop2Absent ==
    \/ "product_id" \notin AgentPoliciesCols(Table("agents"), Table("policies"))
    \/ "code" \notin Table("products").cols

ClaimsHop1Absent ==
    "product_id" \notin Table("policies").cols \/ "code" \notin Table("products").cols

ClaimsHop2Absent ==
    LET pwp == PoliciesWithProducts(Table("policies"), Table("products"))
        claims == Table("reclamos")
    IN  /\ "id" \notin pwp.cols \/ "policy_id" \notin claims.cols
        /\ "policy_number" \notin pwp.cols \/ "policy_number" \notin claims.cols

HopKeyAbsent ==
    /\ AllLoaded
    /\ \/ call = "get_customer_policy_profile" /\ (CustomerHop1Absent \/ CustomerHop2Absent)
       \/ call = "get_agent_performance_across_systems" /\ (AgentHop1Absent \/ AgentHop2Absent)
       \/ call = "get_claims_vs_policies_analysis" /\ (ClaimsHop1Absent \/ ClaimsHop2Absent)

GroupingColumns(c) ==
    IF c = "get_agent_performance_across_systems" THEN Range(AgentGroupKeys)
    ELSE IF c = "get_product_profitability_analysis" THEN Range(ProductGroupKeys)
    ELSE IF c = "get_customer_policy_profile" THEN {"state", "age_group"}
    ELSE IF c = "get_claims_vs_policies_analysis" THEN {"name_product"}
    ELSE {}

\* C6: a grouped aggregation whose grouping column is absent is skipped; the
\* report never raises because a grouping column is absent.
C6_AbsentGroupingColumnNeverRaises ==
    (AllLoaded /\ outcome = "raised") =>
        ~(message[2] = "KeyError " /\ message[3] \in GroupingColumns(call))

(***************************************************************************)
(* Binning properties, over SpecBin.                                       *)
(***************************************************************************)
AmountSites ==
    {"claims_analysis.monto", "claims_payments.claims_monto",
     "claims_payments.payments_monto"}

AgeSites == {"customer_policy_profile.age", "client_demographics.age"}

BinsAt(s) ==
    IF s \in AmountSites THEN AmountBins
    ELSE IF s = "product_analysis.base_premium" THEN PremiumBins
    ELSE AgeBins

LabelsAt(s) ==
    IF s \in AmountSites THEN AmountLabels
    ELSE IF s = "product_analysis.base_premium" THEN PremiumLabels
    ELSE AgeLabels

\* The value handed to pd.cut for row i: the cell, or the age computed from it.
CutInput(i) == IF site \in AgeSites THEN AgeOf(column[i]) ELSE column[i]

RECURSIVE SumCounts(_, _, _)
SumCounts(dist, labels, i) ==
    IF i > Len(labels) THEN 0
    ELSE (IF labels[i] \in DOMAIN dist THEN dist[labels[i]] ELSE 0)
         + SumCounts(dist, labels, i + 1)

Rows == DOMAIN column

\* C7: in claims analysis and product analysis every non-null amount, negative
\* ones included, gets a label, a value below the first boundary gets the
\* first label, and the per-bin counts plus the nulls add up to the row count.
C7_EveryAmountBinned ==
    site \in {"claims_analysis.monto", "product_analysis.base_premium"} =>
        /\ \A i \in Rows : ~IsNull(column[i]) => binned.rowLabels[i] # <<>>
        /\ \A i \in Rows :
              (~IsNull(column[i]) /\ column[i][1] < BinsAt(site)[1][1]) =>
                  binned.rowLabels[i] = <<LabelsAt(site)[1]>>
        /\ SumCounts(binned.dist, LabelsAt(site), 1)
              + (Len(column) - binned.withValue) = Len(column)

\* C8: at every binning call site a value of exactly 0 receives the first
\* label, and a value v with lower < v <= upper receives that bin's label.
C8_LowestClosedOthersHalfOpen ==
    site # "" =>
        \A i \in Rows :
            ~IsNull(CutInput(i)) =>
                LET v == CutInput(i)[1]
                    bins == BinsAt(site)
                IN  /\ v = 0 => binned.rowLabels[i] = <<LabelsAt(site)[1]>>
                    /\ \A k \in 1..(Len(bins) - 1) :
                          (bins[k][1] < v /\ (bins[k + 1] = Inf \/ v <= bins[k + 1][1])) =>
                              binned.rowLabels[i] = <<LabelsAt(site)[k]>>

\* The last finite boundary of a list of bin edges.
LastFiniteBoundary(bins) ==
    IF bins[Len(bins)] = Inf THEN bins[Len(bins) - 1][1] ELSE bins[Len(bins)][1]

\* C9: at every binning call site any value above the last finite boundary
\* receives the last label and is counted under it.
C9_TopBinUnbounded ==
    site # "" =>
        \A i \in Rows :
            (~IsNull(CutInput(i)) /\ CutInput(i)[1] > LastFiniteBoundary(BinsAt(site))) =>
                /\ binned.rowLabels[i] = <<LabelsAt(site)[Len(LabelsAt(site))]>>
                /\ binned.dist[LabelsAt(site)[Len(LabelsAt(site))]] >= 1

ScenarioBinned ==
    site = "claims_analysis.monto" /\ column = ScenarioAmounts

\* The per-label counts of the reported distribution, in label order.
CountsInLabelOrder ==
    [k \in 1..Len(LabelsAt(site)) |->
        IF LabelsAt(site)[k] \in DOMAIN binned.dist
        THEN binned.dist[LabelsAt(site)[k]] ELSE -1]

\* C10 as stated: amounts [500, 1500, 7000, 12000] give the per-label counts
\* 1, 1, 0, 1, 0 in the order of the labels.
C10_ScenarioDistributionAsStated ==
    ScenarioBinned => CountsInLabelOrder = <<1, 1, 0, 1, 0>>

\* C10 as amended: amounts [500, 1500, 7000, 12000] give the distribution
\* {'< 1K': 1, '1K-5K': 1, '5K-10K': 1, '10K-50K': 1, '50K+': 0}: 7000 falls
\* in '5K-10K', every label has an entry, and the counts add up to four.
C10_ScenarioDistribution ==
    ScenarioBinned =>
        /\ DOMAIN binned.dist = {"< 1K", "1K-5K", "5K-10K", "10K-50K", "50K+"}
        /\ CountsInLabelOrder = <<1, 1, 1, 1, 0>>
        /\ SumCounts(binned.dist, AmountLabels, 1) = Len(ScenarioAmounts)

C10_Witness ==
    /\ ScenarioBinned
    /\ binned.rowLabels[3] = <<"5K-10K">>
    /\ binned.dist["50K+"] = 0

(***************************************************************************)
(* Data-level specifications: a frame is [cols, rows], rows a sequence of  *)
(* functions from the column names to cells.                               *)
(***************************************************************************)
Apply(name, input, output) ==
    /\ phase' = "done"
    /\ fn' = name
    /\ args' = input
    /\ value' = output
    /\ UNCHANGED <<call, store, loaded, joined, outcome, result, message, response>>
    /\ UNCHANGED binVars

RECURSIVE TuplesUpTo(_, _)
TuplesUpTo(S, n) ==
    IF n = 0 THEN {<<>>}
    ELSE LET P == TuplesUpTo(S, n - 1)
         IN  P \cup {Append(p, x) : p \in {q \in P : Len(q) = n - 1}, x \in S}

\* The rows whose cell in column c is drawn from cellsOf[c].
RowsOver(cellsOf) ==
    {r \in [DOMAIN cellsOf -> UNION {cellsOf[c] : c \in DOMAIN cellsOf}] :
        \A c \in DOMAIN cellsOf : r[c] \in cellsOf[c]}

\* The frames of at most n such rows.
Frames(cellsOf, n) ==
    {[cols |-> DOMAIN cellsOf, rows |-> rs] : rs \in TuplesUpTo(RowsOver(cellsOf), n)}

(***************************************************************************)
(* SpecJoin: pandas.merge on rows, in execute_cross_database_join and in   *)
(* the reports.                                                            *)
(***************************************************************************)
MaxJoinRows == 3

\* Key cells: null and two values; the other column holds a value that tells
\* the side it comes from.
KeyCells == {Null, <<1>>, <<2>>}

LeftFrames(lk) ==
    Frames((lk :> KeyCells) @@ ("name" :> {<<7>>}), MaxJoinRows)

RightFrames(rk) ==
    Frames((rk :> KeyCells) @@ ("name" :> {<<8>>}), MaxJoinRows)

\* A key comparison in which a null key matches nothing (the behaviour C11
\* excludes).
KeysMatchNullNever(a, b) == a = b /\ a # Null

\* Two key values are one group when they are equal; pandas puts a null key
\* in the group of the other null keys.
KeysMatch(a, b) == a = b

\* The key the two frames share by name (on=, or left_on = right_on), or "".
SharedKey(lk, rk) == IF lk = rk THEN lk ELSE ""

\* The columns of the merged frame.
MergedCols(L, R, lk, rk, sl, sr) ==
    IF lk = rk THEN MergeOnCols(L.cols, R.cols, lk, sl, sr)
    ELSE MergeCols(L.cols, R.cols, sl, sr)

\* The name under which the merged frame holds column c of the left frame.
LeftName(c, R, lk, rk, sl) ==
    IF c \in R.cols /\ c # SharedKey(lk, rk) THEN c \o sl ELSE c

\* The name under which the merged frame holds column c of the right frame.
RightName(c, L, lk, rk, sr) ==
    IF c \in L.cols /\ c # SharedKey(lk, rk) THEN c \o sr ELSE c

\* The right rows that match left row i from right row j on, in right order.
RECURSIVE MatchesFrom(_, _, _, _, _, _)
MatchesFrom(L, R, lk, rk, i, j) ==
    IF j > Len(R.rows) THEN <<>>
    ELSE (IF KeysMatch(L.rows[i][lk], R.rows[j][rk]) THEN << <<i, j>> >> ELSE <<>>)
         \o MatchesFrom(L, R, lk, rk, i, j + 1)

\* The pairs <<left row, right row>> of the merged frame in its row order:
\* left order, then right order; how = "left" keeps a left row without a
\* match as <<i, 0>>.
RECURSIVE MergePairs(_, _, _, _, _, _)
MergePairs(L, R, lk, rk, how, i) ==
    IF i > Len(L.rows) THEN <<>>
    ELSE LET m == MatchesFrom(L, R, lk, rk, i, 1)
         IN  (IF m = <<>> /\ how = "left" THEN << <<i, 0>> >> ELSE m)
             \o MergePairs(L, R, lk, rk, how, i + 1)

\* The row of the merged frame made of left row i and right row j (0: none).
MergedRow(L, R, lk, rk, sl, sr, i, j) ==
    [n \in MergedCols(L, R, lk, rk, sl, sr) |->
        IF \E c \in L.cols : LeftName(c, R, lk, rk, sl) = n
        THEN L.rows[i][CHOOSE c \in L.cols : LeftName(c, R, lk, rk, sl) = n]
        ELSE IF j = 0 THEN Null
        ELSE R.rows[j][CHOOSE c \in R.cols : RightName(c, L, lk, rk, sr) = n]]

\* pd.merge(L, R, left_on=lk, right_on=rk, how=how, suffixes=(sl, sr))
Merge(L, R, lk, rk, how, sl, sr) ==
    LET pairs == MergePairs(L, R, lk, rk, how, 1)
    IN  [outcome |-> "returned",
         cols |-> MergedCols(L, R, lk, rk, sl, sr),
         pairs |-> pairs,
         rows |-> [k \in DOMAIN pairs |->
                      MergedRow(L, R, lk, rk, sl, sr, pairs[k][1], pairs[k][2])]]

\* execute_cross_database_join after its two loads: a key that a frame lacks
\* makes pd.merge raise KeyError, re-raised as "Cross-database join failed".
ExecuteCrossDatabaseJoin(L, R, lk, rk, how) ==
    IF lk \notin L.cols \/ rk \notin R.cols
    THEN [outcome |-> "raised", cols |-> {}, pairs |-> <<>>, rows |-> <<>>]
    ELSE Merge(L, R, lk, rk, how, "_left", "_right")

\* The merges of the report functions.
ReportMerges ==
    {[left_on |-> "id", right_on |-> "user_id", how |-> "inner",
      suffixes |-> <<"_user", "_client">>],
     [left_on |-> "user_id", right_on |-> "customer_id", how |-> "left",
      suffixes |-> <<"", "_policy">>],
     [left_on |-> "code", right_on |-> "agent_id", how |-> "left",
      suffixes |-> <<"_agent", "_policy">>],
     [left_on |-> "product_id", right_on |-> "code", how |-> "left",
      suffixes |-> <<"", "_product">>],
     [left_on |-> "product_id", right_on |-> "code", how |-> "left",
      suffixes |-> <<"_policy", "_product">>],
     [left_on |-> "id", right_on |-> "policy_id", how |-> "left",
      suffixes |-> <<"_policy", "_claim">>],
     [left_on |-> "policy_number", right_on |-> "policy_number", how |-> "left",
      suffixes |-> <<"_policy", "_claim">>],
     [left_on |-> "product_id", right_on |-> "code", how |-> "inner",
      suffixes |-> <<"_x", "_y">>]}

JoinInput(L, R, lk, rk, how, sl, sr) ==
    [left |-> L, right |-> R, left_on |-> lk, right_on |-> rk, how |-> how,
     suffixes |-> <<sl, sr>>]

\* s3_data_manager.py, execute_cross_database_join
execute_cross_database_join ==
    /\ phase = "idle"
    /\ \E rk \in {"id", "user_id"}, how \in {"inner", "left"} :
       \E L \in LeftFrames("id") \cup Frames(("name" :> {<<7>>}), 1) :
       \E R \in RightFrames(rk) :
         Apply("execute_cross_database_join",
               JoinInput(L, R, "id", rk, how, "_left", "_right"),
               ExecuteCrossDatabaseJoin(L, R, "id", rk, how))

\* the pd.merge calls of the report functions
MergeInReport ==
    /\ phase = "idle"
    /\ \E m \in ReportMerges :
       \E L \in LeftFrames(m.left_on) :
       \E R \in RightFrames(m.right_on) :
         Apply("pd.merge",
               JoinInput(L, R, m.left_on, m.right_on, m.how,
                         m.suffixes[1], m.suffixes[2]),
               Merge(L, R, m.left_on, m.right_on, m.how,
                     m.suffixes[1], m.suffixes[2]))

NextJoin ==
    \/ execute_cross_database_join
    \/ MergeInReport
    \/ Finish

SpecJoin == Init /\ [][NextJoin]_vars

(***************************************************************************)
(* Join properties, over SpecJoin.                                         *)
(***************************************************************************)
Merged == fn \in {"execute_cross_database_join", "pd.merge"} /\ value.outcome = "returned"

\* The pairs of a left and a right row that carry the same key value.
MatchedPairs ==
    {p \in (DOMAIN args.left.rows) \X (DOMAIN args.right.rows) :
        args.left.rows[p[1]][args.left_on] = args.right.rows[p[2]][args.right_on]}

\* A name belongs to both frames and is not the one key they share by name.
Collides(c) ==
    /\ c \in args.left.cols \cap args.right.cols
    /\ ~(c = args.left_on /\ c = args.right_on)

\* Row k of the merged frame carries the cells of left row i and right row j,
\* each under its own name or, for a colliding name, under the suffixed one.
CarriesPair(k, i, j) ==
    /\ \A c \in args.left.cols :
          value.rows[k][IF Collides(c) THEN c \o args.suffixes[1] ELSE c]
              = args.left.rows[i][c]
    /\ \A c \in args.right.cols \ (IF args.left_on = args.right_on
                                     THEN {args.left_on} ELSE {}) :
          value.rows[k][IF Collides(c) THEN c \o args.suffixes[2] ELSE c]
              = (IF j = 0 THEN Null ELSE args.right.rows[j][c])

\* C11: on a key present in both frames, an inner join has one row per matched
\* left-right pair and no other row (so at most n*m rows); a left join has
\* every left row at least once, a left row without a match once with null in
\* every right-side column; the columns are the union of both frames' columns
\* with colliding names suffixed.
C11_JoinRowsAndColumns ==
    Merged =>
        LET n == Len(args.left.rows)
            m == Len(args.right.rows)
            unmatched == {i \in 1..n : \A j \in 1..m : <<i, j>> \notin MatchedPairs}
            rowsOf == Range(value.pairs)
        IN  /\ Len(value.rows) = Len(value.pairs)
            /\ Cardinality(rowsOf) = Len(value.pairs)
            /\ \A k \in DOMAIN value.pairs :
                  CarriesPair(k, value.pairs[k][1], value.pairs[k][2])
            /\ args.how = "inner" =>
                  rowsOf = MatchedPairs /\ Len(value.rows) <= n * m
            /\ args.how = "left" =>
                  /\ rowsOf = MatchedPairs \cup {<<i, 0>> : i \in unmatched}
                  /\ \A i \in 1..n : \E k \in DOMAIN value.pairs : value.pairs[k][1] = i
                  /\ Len(value.rows) >= n
            /\ value.cols =
                  {c \in args.left.cols \cup args.right.cols : ~Collides(c)}
                  \cup {c \o args.suffixes[1] : c \in {d \in args.left.cols : Collides(d)}}
                  \cup {c \o args.suffixes[2] : c \in {d \in args.right.cols : Collides(d)}}
            /\ \A k \in DOMAIN value.rows : DOMAIN value.rows[k] = value.cols

C11_Witness ==
    /\ Merged
    /\ args.how = "left"
    /\ Len(args.left.rows) = 2
    /\ \E k \in DOMAIN value.pairs :
          value.pairs[k][2] = 0 /\ value.rows[k]["name_right"] = Null
    /\ \E k \in DOMAIN value.pairs : value.pairs[k][2] # 0

(***************************************************************************)
(* SpecRatio: the derived ratio metrics, computed from their aggregates.   *)
(* A reported number is Num(h), h in hundredths after round(x, 2), or NaN, *)
(* or an infinity; a metric the result lacks is no key of the mapping.     *)
(***************************************************************************)
MaxCount == 2

Num(h) == [kind |-> "num", h |-> h]
NaN == [kind |-> "nan", h |-> 0]
PosInf == [kind |-> "inf", h |-> 1]
NegInf == [kind |-> "inf", h |-> -1]

\* n/d rounded to the nearest integer, a tie going to the even one (d > 0).
RoundHalfEven(n, d) ==
    LET q == n \div d
        r == n % d
    IN  IF 2 * r < d THEN q
        ELSE IF 2 * r > d THEN q + 1
        ELSE IF q % 2 = 0 THEN q ELSE q + 1

\* round(n / d * scale, 2) in hundredths, for d # 0.
Round2(n, d, scale) ==
    IF d > 0 THEN RoundHalfEven(100 * scale * n, d)
    ELSE RoundHalfEven(-(100 * scale * n), -d)

\* Series / Series of pandas, then * scale and .round(2): a null operand
\* gives NaN, x/0 an infinity of the sign of x, 0/0 NaN.
SeriesRatio(a, b, scale) ==
    IF IsNull(a) \/ IsNull(b) THEN NaN
    ELSE IF b[1] = 0
    THEN (IF a[1] = 0 THEN NaN ELSE IF a[1] > 0 THEN PosInf ELSE NegInf)
    ELSE Num(Round2(a[1], b[1], scale))

\* round(n / d * scale, 2) if d > 0 else 0
GuardedRatio(n, d, scale) ==
    IF d > 0 THEN Num(Round2(n, d, scale)) ELSE Num(0)

\* get_product_profitability_analysis: per product, premium_mean over
\* base_premium_first and premium_sum over sum_insured_sum, not guarded.
ProfitabilityRatios(premium_mean, base_premium_first, premium_sum, sum_insured_sum) ==
    [premium_efficiency |-> SeriesRatio(premium_mean, base_premium_first, 1),
     premium_to_exposure_ratio |-> SeriesRatio(<<premium_sum>>, <<sum_insured_sum>>, 100)]

\* get_claims_vs_policies_analysis: claim_rate and the financial loss_ratio.
ClaimsVsPoliciesRatios(policies_with_claims, total_policies, total_claims_amount, total_premiums) ==
    [claim_rate_percentage |-> GuardedRatio(policies_with_claims, total_policies, 100),
     loss_ratio |-> GuardedRatio(total_claims_amount, total_premiums, 100)]

\* get_claims_payments_correlation, general_stats: the ratio of the row
\* counts, and loss_ratio only if the payments total is positive.
GeneralStatsRatios(total_claims, total_payments, total_claims_amount, total_payments_amount) ==
    [claims_to_payments_ratio |-> GuardedRatio(total_claims, total_payments, 1)]
    @@ (IF total_payments_amount > 0
        THEN [loss_ratio |-> Num(Round2(total_claims_amount, total_payments_amount, 100))]
        ELSE <<>>)

\* get_customer_policy_profile, summary.
PenetrationRate(customers_with_policies, total_customers) ==
    [penetration_rate |-> GuardedRatio(customers_with_policies, total_customers, 100)]

\* get_agent_performance_across_systems, summary.
SalesPenetration(agents_with_sales, active_agents_count) ==
    [sales_penetration |-> GuardedRatio(agents_with_sales, active_agents_count, 100)]

\* get_user_growth_by_state, growth_rate: monthly_totals are the sizes of the
\* monthly groups, oldest first.
ChangePercent(monthly_totals) ==
    LET n == Len(monthly_totals)
    IN  [change_percent |->
            IF n > 1 /\ monthly_totals[n - 1] > 0
            THEN Num(Round2(monthly_totals[n] - monthly_totals[n - 1],
                            monthly_totals[n - 1], 100))
            ELSE Num(0)]

Counts == 0..MaxCount
Amounts == {0, 150, 400}
AmountCells == {Null} \cup {<<a>> : a \in Amounts}

\* The input of a ratio site: the aggregates, and per metric its denominator.
RatioInput(aggregates, denominators) ==
    [aggregates |-> aggregates, denominators |-> denominators]

\* postgresql_s3_analytics.py, get_product_profitability_analysis
ComputeProfitabilityRatios ==
    /\ phase = "idle"
    /\ \E pm \in AmountCells, bp \in AmountCells, ps \in Amounts, si \in Amounts :
         Apply("get_product_profitability_analysis",
               RatioInput(<<pm, bp, ps, si>>,
                          [premium_efficiency |-> bp,
                           premium_to_exposure_ratio |-> <<si>>]),
               ProfitabilityRatios(pm, bp, ps, si))

\* cross_microservice_analytics.py, get_claims_vs_policies_analysis
ComputeClaimsVsPoliciesRatios ==
    /\ phase = "idle"
    /\ \E tp \in Counts, ca \in Amounts, pr \in Amounts :
       \E pc \in 0..tp :
         Apply("get_claims_vs_policies_analysis",
               RatioInput(<<pc, tp, ca, pr>>,
                          [claim_rate_percentage |-> <<tp>>, loss_ratio |-> <<pr>>]),
               ClaimsVsPoliciesRatios(pc, tp, ca, pr))

\* cassandra_s3_analytics.py, get_claims_payments_correlation
ComputeGeneralStatsRatios ==
    /\ phase = "idle"
    /\ \E tc \in Counts, tp \in Counts, ca \in Amounts, pa \in Amounts :
         Apply("get_claims_payments_correlation",
               RatioInput(<<tc, tp, ca, pa>>,
                          [claims_to_payments_ratio |-> <<tp>>, loss_ratio |-> <<pa>>]),
               GeneralStatsRatios(tc, tp, ca, pa))

\* cross_microservice_analytics.py, get_customer_policy_profile
ComputePenetrationRate ==
    /\ phase = "idle"
    /\ \E tc \in Counts :
       \E cp \in 0..tc :
         Apply("get_customer_policy_profile",
               RatioInput(<<cp, tc>>, [penetration_rate |-> <<tc>>]),
               PenetrationRate(cp, tc))

\* cross_microservice_analytics.py, get_agent_performance_across_systems
ComputeSalesPenetration ==
    /\ phase = "idle"
    /\ \E aws \in Counts, aac \in Counts :
         Apply("get_agent_performance_across_systems",
               RatioInput(<<aws, aac>>, [sales_penetration |-> <<aac>>]),
               SalesPenetration(aws, aac))

\* mysql_s3_analytics.py, get_user_growth_by_state
ComputeChangePercent ==
    /\ phase = "idle"
    /\ \E mt \in TuplesUpTo(1..(MaxCount + 1), 2) :
         Apply("get_user_growth_by_state",
               RatioInput(mt, [change_percent |->
                                  IF Len(mt) > 1 THEN <<mt[Len(mt) - 1]>> ELSE Null]),
               ChangePercent(mt))

NextRatio ==
    \/ ComputeProfitabilityRatios
    \/ ComputeClaimsVsPoliciesRatios
    \/ ComputeGeneralStatsRatios
    \/ ComputePenetrationRate
    \/ ComputeSalesPenetration
    \/ ComputeChangePercent
    \/ Finish

SpecRatio == Init /\ [][NextRatio]_vars

(***************************************************************************)
(* Ratio properties, over SpecRatio.                                       *)
(***************************************************************************)
RatioComputed == phase = "done" /\ fn # ""

ZeroOrUndefined(cell) == IsNull(cell) \/ cell[1] = 0

\* C12: every derived ratio metric whose denominator is 0 or undefined is
\* reported as 0, and no ratio metric is ever reported as NaN or infinity.
C12_ZeroDenominatorReportsZero ==
    RatioComputed =>
        /\ \A r \in DOMAIN args.denominators :
              ZeroOrUndefined(args.denominators[r]) =>
                  r \in DOMAIN value /\ value[r] = Num(0)
        /\ \A r \in DOMAIN value : value[r].kind = "num"

(***************************************************************************)
(* SpecCorr: get_claims_payments_correlation on rows. A date cell holds    *)
(* the number of its month (its monthly period) or is null (NaT).          *)
(***************************************************************************)
MaxCorrRows == 2
MaxMonths == 14

\* comparison_df.tail(12)
WindowPeriods == 12

Max(a, b) == IF a > b THEN a ELSE b
Abs(a) == IF a < 0 THEN -a ELSE a
Sign(a) == IF a < 0 THEN -1 ELSE IF a > 0 THEN 1 ELSE 0

RECURSIVE Gcd(_, _)
Gcd(a, b) == IF b = 0 THEN a ELSE Gcd(b, a % b)

RECURSIVE SumSeq(_)
SumSeq(xs) == IF xs = <<>> THEN 0 ELSE Head(xs) + SumSeq(Tail(xs))

\* The elements of a set of numbers in ascending order.
RECURSIVE SortedSeq(_)
SortedSeq(S) ==
    IF S = {} THEN <<>>
    ELSE LET m == CHOOSE x \in S : \A y \in S : x <= y
         IN  <<m>> \o SortedSeq(S \ {m})

\* The rows of a frame whose date falls in period p.
RowsIn(df, dateCol, p) == {i \in DOMAIN df.rows : df.rows[i][dateCol] = <<p>>}

\* The periods of the rows that have a date: the keys of groupby('month_year').
PeriodsOf(df, dateCol) ==
    {df.rows[i][dateCol][1] : i \in {j \in DOMAIN df.rows : ~IsNull(df.rows[j][dateCol])}}

\* The sum of the non-null cells of column c over the rows in I.
RECURSIVE SumOver(_, _, _)
SumOver(df, c, I) ==
    IF I = {} THEN 0
    ELSE LET i == CHOOSE j \in I : TRUE
         IN  (IF IsNull(df.rows[i][c]) THEN 0 ELSE df.rows[i][c][1])
             + SumOver(df, c, I \ {i})

\* groupby('month_year').size()
MonthlySize(df, dateCol) ==
    [p \in PeriodsOf(df, dateCol) |-> Cardinality(RowsIn(df, dateCol, p))]

\* groupby('month_year')['monto'].sum() if 'monto' in df.columns else pd.Series()
MonthlyAmount(df, dateCol) ==
    IF "monto" \in df.cols
    THEN [p \in PeriodsOf(df, dateCol) |-> SumOver(df, "monto", RowsIn(df, dateCol, p))]
    ELSE <<>>

\* The value of a series at p after alignment on a common index: NaN where
\* the series has no entry.
Aligned(series, p) == IF p \in DOMAIN series THEN <<series[p]>> ELSE Null

\* .fillna(v)
FillNa(cell, v) == IF IsNull(cell) THEN v ELSE cell[1]

\* An alignment that keeps only the periods every given series has (the
\* behaviour C15 excludes).
CommonPeriods(seriesSet) ==
    {p \in UNION {DOMAIN s : s \in seriesSet} : \A s \in seriesSet : s = <<>> \/ p \in DOMAIN s}

\* pd.DataFrame({...}): the index is the union of the indexes of the series.
AlignedPeriods(seriesSet) == UNION {DOMAIN s : s \in seriesSet}

\* comparison_df: one row per period of the union index, in ascending order,
\* NaN filled with 0.
ComparisonDf(claims, payments) ==
    LET mc == MonthlySize(claims, "fecha_reclamo")
        mca == MonthlyAmount(claims, "fecha_reclamo")
        mp == MonthlySize(payments, "fecha_pago")
        mpa == MonthlyAmount(payments, "fecha_pago")
        index == SortedSeq(AlignedPeriods({mc, mca, mp, mpa}))
    IN  [k \in DOMAIN index |->
            [period |-> index[k],
             claims_count |-> FillNa(Aligned(mc, index[k]), 0),
             payments_count |-> FillNa(Aligned(mp, index[k]), 0),
             claims_amount |-> FillNa(Aligned(mca, index[k]), 0),
             payment_amount |-> FillNa(Aligned(mpa, index[k]), 0)]]

\* Series.corr (Pearson) of two aligned series: NaN when one of them is
\* constant, else the exact value r, kept as its sign and r * r in lowest
\* terms.
Corr(xs, ys) ==
    LET n == Len(xs)
        sx == SumSeq(xs)
        sy == SumSeq(ys)
        cov == n * SumSeq([k \in DOMAIN xs |-> xs[k] * ys[k]]) - sx * sy
        vx == n * SumSeq([k \in DOMAIN xs |-> xs[k] * xs[k]]) - sx * sx
        vy == n * SumSeq([k \in DOMAIN ys |-> ys[k] * ys[k]]) - sy * sy
        g == Gcd(cov * cov, vx * vy)
    IN  IF vx = 0 \/ vy = 0 THEN NaN
        ELSE [kind |-> "corr", sign |-> Sign(cov),
              num |-> (cov * cov) \div g, den |-> (vx * vy) \div g]

\* abs(r) >= 7/10 (the behaviour C22 excludes).
StrongCorrelationInclusive(r) == r.kind = "corr" /\ 100 * r.num >= 49 * r.den

\* abs(r) > 7/10; False for NaN.
StrongCorrelation(r) == r.kind = "corr" /\ 100 * r.num > 49 * r.den

\* Correlations that are reported as 0 when there are fewer than two periods
\* (the behaviour C16 excludes).
CorrelationsZeroWhenShort(cdf) ==
    IF Len(cdf) > 1
    THEN [count_correlation |->
             Corr([k \in DOMAIN cdf |-> cdf[k].claims_count],
                  [k \in DOMAIN cdf |-> cdf[k].payments_count]),
          amount_correlation |->
             Corr([k \in DOMAIN cdf |-> cdf[k].claims_amount],
                  [k \in DOMAIN cdf |-> cdf[k].payment_amount])]
    ELSE [count_correlation |-> Num(0), amount_correlation |-> Num(0)]

\* correlations = {...} if len(comparison_df) > 1 else {}
Correlations(cdf) ==
    IF Len(cdf) > 1
    THEN [count_correlation |->
             Corr([k \in DOMAIN cdf |-> cdf[k].claims_count],
                  [k \in DOMAIN cdf |-> cdf[k].payments_count]),
          amount_correlation |->
             Corr([k \in DOMAIN cdf |-> cdf[k].claims_amount],
                  [k \in DOMAIN cdf |-> cdf[k].payment_amount])]
    ELSE <<>>

\* df.tail(n)
TailRows(sq, n) == SubSeq(sq, Max(1, Len(sq) - n + 1), Len(sq))

\* monthly_data: one entry per period of recent_comparison.
MonthlyData(recent) ==
    [k \in DOMAIN recent |->
        [period |-> recent[k].period,
         claims_count |-> recent[k].claims_count,
         payments_count |-> recent[k].payments_count,
         claims_amount |-> recent[k].claims_amount,
         payment_amount |-> recent[k].payment_amount,
         claims_to_payments_ratio |->
             GuardedRatio(recent[k].claims_count, recent[k].payments_count, 1)]]

\* monthly_comparison: {} unless both frames have their date column.
MonthlyComparison(claims, payments) ==
    IF "fecha_reclamo" \in claims.cols /\ "fecha_pago" \in payments.cols
    THEN LET cdf == ComparisonDf(claims, payments)
         IN  [correlations |-> Correlations(cdf),
              monthly_data |-> MonthlyData(TailRows(cdf, WindowPeriods))]
    ELSE <<>>

\* The non-null cells of column c.
NonNullRows(df, c) == {i \in DOMAIN df.rows : ~IsNull(df.rows[i][c])}

\* round(df['monto'].mean(), 2) if 'monto' in df.columns else 0
AvgAmount(df) ==
    IF "monto" \notin df.cols THEN Num(0)
    ELSE IF NonNullRows(df, "monto") = {} THEN NaN
    ELSE Num(Round2(SumOver(df, "monto", DOMAIN df.rows),
                    Cardinality(NonNullRows(df, "monto")), 1))

\* round(df['monto'].sum(), 2) if 'monto' in df.columns else 0
TotalAmount(df) ==
    IF "monto" \in df.cols THEN SumOver(df, "monto", DOMAIN df.rows) ELSE 0

\* general_stats, with loss_ratio added when the payments total is positive.
GeneralStats(claims, payments) ==
    [total_claims |-> Len(claims.rows),
     total_payments |-> Len(payments.rows),
     avg_claim_amount |-> AvgAmount(claims),
     avg_payment_amount |-> AvgAmount(payments),
     total_claims_amount |-> TotalAmount(claims),
     total_payments_amount |-> TotalAmount(payments)]
    @@ GeneralStatsRatios(Len(claims.rows), Len(payments.rows),
                          TotalAmount(claims), TotalAmount(payments))

\* Insight rules whose loss-ratio thresholds include 80 and 30 (the behaviour
\* C21 excludes).
GenerateClaimsPaymentsInsightsInclusive(general_stats, monthly_comparison) ==
    LET ratio == general_stats.claims_to_payments_ratio.h
        corrs == IF "correlations" \in DOMAIN monthly_comparison
                 THEN monthly_comparison.correlations ELSE <<>>
    IN  (IF "loss_ratio" \in DOMAIN general_stats
         THEN (IF general_stats.loss_ratio.h >= 8000
               THEN <<"Alto indice de siniestralidad">>
               ELSE IF general_stats.loss_ratio.h <= 3000
               THEN <<"Bajo indice de siniestralidad">>
               ELSE <<"Indice de siniestralidad moderado">>)
         ELSE <<>>)
        \o (IF ratio > 50 THEN <<"Alta frecuencia de reclamos">>
            ELSE IF ratio < 10 THEN <<"Baja frecuencia de reclamos">>
            ELSE <<>>)
        \o (IF corrs # <<>> /\ StrongCorrelation(corrs.count_correlation)
            THEN (IF corrs.count_correlation.sign > 0
                  THEN <<"Correlacion fuerte">>
                  ELSE <<"Correlacion fuerte inversa">>)
            ELSE <<>>)

\* _generate_claims_payments_insights: the insights in the order appended.
GenerateClaimsPaymentsInsights(general_stats, monthly_comparison) ==
    LET ratio == general_stats.claims_to_payments_ratio.h
        corrs == IF "correlations" \in DOMAIN monthly_comparison
                 THEN monthly_comparison.correlations ELSE <<>>
    IN  (IF "loss_ratio" \in DOMAIN general_stats
         THEN (IF general_stats.loss_ratio.h > 8000
               THEN <<"Alto indice de siniestralidad">>
               ELSE IF general_stats.loss_ratio.h < 3000
               THEN <<"Bajo indice de siniestralidad">>
               ELSE <<"Indice de siniestralidad moderado">>)
         ELSE <<>>)
        \o (IF ratio > 50 THEN <<"Alta frecuencia de reclamos">>
            ELSE IF ratio < 10 THEN <<"Baja frecuencia de reclamos">>
            ELSE <<>>)
        \o (IF corrs # <<>> /\ StrongCorrelation(corrs.count_correlation)
            THEN (IF corrs.count_correlation.sign > 0
                  THEN <<"Correlacion fuerte">>
                  ELSE <<"Correlacion fuerte inversa">>)
            ELSE <<>>)

\* weekday_analysis: idxmax() of the weekday counts raises ValueError when a
\* frame has no row with a date.
WeekdayAnalysisRaises(claims, payments) ==
    /\ "fecha_reclamo" \in claims.cols
    /\ "fecha_pago" \in payments.cols
    /\ \/ NonNullRows(claims, "fecha_reclamo") = {}
       \/ NonNullRows(payments, "fecha_pago") = {}

\* get_claims_payments_correlation after its two loads.
ClaimsPaymentsCorrelation(claims, payments) ==
    IF WeekdayAnalysisRaises(claims, payments)
    THEN [outcome |-> "raised",
          message |-> <<"Error analyzing claims-payments correlation: ", "ValueError">>]
    ELSE LET gs == GeneralStats(claims, payments)
             mc == MonthlyComparison(claims, payments)
         IN  [outcome |-> "returned",
              general_statistics |-> gs,
              monthly_comparison |-> mc,
              insights |-> GenerateClaimsPaymentsInsights(gs, mc)]

DateCells == {Null, <<1>>, <<2>>}
MontoCells == {<<0>>, <<2>>}

\* The frames of reclamos / pagos: each of the two columns present or not.
CorrFrames(dateCol) ==
    UNION {Frames([c \in cs |-> IF c = "monto" THEN MontoCells ELSE DateCells],
                  MaxCorrRows) : cs \in SUBSET {dateCol, "monto"}}

\* A frame with one row per month from a to b, the newest row first.
History(dateCol, a, b) ==
    [cols |-> {dateCol, "monto"},
     rows |-> [k \in 1..(b - a + 1) |->
                  (dateCol :> <<b - k + 1>>) @@ ("monto" :> <<2 * ((b - k + 1) % 2)>>)]]

CorrInput(claims, payments) == [claims |-> claims, payments |-> payments]

\* cassandra_s3_analytics.py, get_claims_payments_correlation on small frames
CorrelateClaimsPayments ==
    /\ phase = "idle"
    /\ \E claims \in CorrFrames("fecha_reclamo"), payments \in CorrFrames("fecha_pago") :
         Apply("get_claims_payments_correlation", CorrInput(claims, payments),
               ClaimsPaymentsCorrelation(claims, payments))

\* ... and on frames that span more months than the window.
CorrelateHistories ==
    /\ phase = "idle"
    /\ \E a \in 1..MaxMonths, c \in 1..MaxMonths :
       \E b \in a..MaxMonths, d \in c..MaxMonths :
         LET claims == History("fecha_reclamo", a, b)
             payments == History("fecha_pago", c, d)
         IN  Apply("get_claims_payments_correlation", CorrInput(claims, payments),
                   ClaimsPaymentsCorrelation(claims, payments))

NextCorr ==
    \/ CorrelateClaimsPayments
    \/ CorrelateHistories
    \/ Finish

SpecCorr == Init /\ [][NextCorr]_vars

(***************************************************************************)
(* Claims-payments properties, over SpecCorr.                              *)
(***************************************************************************)
Correlated == phase = "done" /\ fn = "get_claims_payments_correlation"
CorrReturned == Correlated /\ value.outcome = "returned"

BothDated ==
    "fecha_reclamo" \in args.claims.cols /\ "fecha_pago" \in args.payments.cols

\* The months in which a row of the frame falls, and the rows per month.
MonthsOf(df, dateCol) ==
    {m \in 1..MaxMonths : \E i \in DOMAIN df.rows : df.rows[i][dateCol] = <<m>>}

CountIn(df, dateCol, m) ==
    Cardinality({i \in DOMAIN df.rows : df.rows[i][dateCol] = <<m>>})

AmountIn(df, dateCol, m) ==
    IF "monto" \in df.cols
    THEN SumOver(df, "monto", {i \in DOMAIN df.rows : df.rows[i][dateCol] = <<m>>})
    ELSE 0

\* Every month of either table, oldest first.
AllMonths ==
    SortedSeq(MonthsOf(args.claims, "fecha_reclamo")
              \cup MonthsOf(args.payments, "fecha_pago"))

\* The zero-filled aligned series over the months ms.
ClaimsCountSeries(ms) == [k \in DOMAIN ms |-> CountIn(args.claims, "fecha_reclamo", ms[k])]
PaymentsCountSeries(ms) == [k \in DOMAIN ms |-> CountIn(args.payments, "fecha_pago", ms[k])]
ClaimsAmountSeries(ms) == [k \in DOMAIN ms |-> AmountIn(args.claims, "fecha_reclamo", ms[k])]
PaymentsAmountSeries(ms) == [k \in DOMAIN ms |-> AmountIn(args.payments, "fecha_pago", ms[k])]

\* The months of the emitted monthly series, in its order.
EmittedMonths ==
    [k \in DOMAIN value.monthly_comparison.monthly_data |->
        value.monthly_comparison.monthly_data[k].period]

FrequencyInsights == {"Alta frecuencia de reclamos", "Baja frecuencia de reclamos"}

LossRatioInsights ==
    {"Alto indice de siniestralidad", "Bajo indice de siniestralidad",
     "Indice de siniestralidad moderado"}

\* C13: with no payment rows claims_to_payments_ratio, and with a zero
\* payments total loss_ratio, is left out of the result and no insight is
\* derived from it, while the rest of the report is returned.
C13_ZeroDenominatorOmitsRatio ==
    Correlated =>
        /\ Len(args.payments.rows) = 0 =>
              /\ value.outcome = "returned"
              /\ "claims_to_payments_ratio" \notin DOMAIN value.general_statistics
              /\ Range(value.insights) \cap FrequencyInsights = {}
        /\ TotalAmount(args.payments) = 0 =>
              /\ value.outcome = "returned"
              /\ "loss_ratio" \notin DOMAIN value.general_statistics
              /\ Range(value.insights) \cap LossRatioInsights = {}

\* C15: in a returned monthly comparison the aligned series cover every month
\* of either table, a month that only one table has carrying count 0 and
\* amount 0 for the other; the emitted series is the tail of these aligned
\* series, and the correlations are those of the zero-filled aligned series.
C15_AlignedSeriesZeroFilled ==
    (CorrReturned /\ BothDated) =>
        LET ms == AllMonths
            md == value.monthly_comparison.monthly_data
            first == Len(ms) - Len(md)
        IN  /\ Len(md) = (IF Len(ms) > WindowPeriods THEN WindowPeriods ELSE Len(ms))
            /\ \A k \in DOMAIN md :
                  LET m == ms[first + k]
                  IN  /\ md[k].period = m
                      /\ md[k].claims_count = CountIn(args.claims, "fecha_reclamo", m)
                      /\ md[k].payments_count = CountIn(args.payments, "fecha_pago", m)
                      /\ md[k].claims_amount = AmountIn(args.claims, "fecha_reclamo", m)
                      /\ md[k].payment_amount = AmountIn(args.payments, "fecha_pago", m)
                      /\ m \notin MonthsOf(args.claims, "fecha_reclamo") =>
                            md[k].claims_count = 0 /\ md[k].claims_amount = 0
                      /\ m \notin MonthsOf(args.payments, "fecha_pago") =>
                            md[k].payments_count = 0 /\ md[k].payment_amount = 0
            /\ Len(ms) > 1 =>
                  /\ value.monthly_comparison.correlations.count_correlation
                        = Corr(ClaimsCountSeries(ms), PaymentsCountSeries(ms))
                  /\ value.monthly_comparison.correlations.amount_correlation
                        = Corr(ClaimsAmountSeries(ms), PaymentsAmountSeries(ms))

C15_Witness ==
    /\ CorrReturned
    /\ BothDated
    /\ MonthsOf(args.claims, "fecha_reclamo") = {1}
    /\ MonthsOf(args.payments, "fecha_pago") = {2}
    /\ Len(value.monthly_comparison.monthly_data) = 2
    /\ value.monthly_comparison.monthly_data[1].payments_count = 0
    /\ value.monthly_comparison.monthly_data[2].claims_count = 0
    /\ value.monthly_comparison.correlations.count_correlation.kind = "corr"

\* The correlation keys of the result, wherever they are.
ReportedCorrelations ==
    IF value.monthly_comparison = <<>> THEN <<>>
    ELSE value.monthly_comparison.correlations

\* C16: a returned result has the correlation entries count_correlation and
\* amount_correlation exactly when both tables are dated and the aligned
\* monthly series has at least 2 periods; otherwise it has no correlation
\* entry at all (none reported as 0) and no correlation insight; the amount
\* correlation of a table without amounts is NaN, never a number.
C16_CorrelationNeedsTwoPeriods ==
    CorrReturned =>
        LET enough == BothDated /\ Len(AllMonths) >= 2
        IN  /\ enough =>
                  DOMAIN ReportedCorrelations = {"count_correlation", "amount_correlation"}
            /\ ~enough =>
                  /\ ReportedCorrelations = <<>>
                  /\ Range(value.insights) \cap
                        {"Correlacion fuerte", "Correlacion fuerte inversa"} = {}
            /\ \A c \in DOMAIN ReportedCorrelations :
                  ReportedCorrelations[c].kind \in {"corr", "nan"}
            /\ (enough /\ ("monto" \notin args.claims.cols \/ "monto" \notin args.payments.cols)) =>
                  ReportedCorrelations.amount_correlation = NaN

C16_Witness ==
    /\ CorrReturned
    /\ BothDated
    /\ Len(AllMonths) = 1
    /\ Len(value.monthly_comparison.monthly_data) = 1
    /\ value.monthly_comparison.correlations = <<>>

\* C17: the emitted monthly series holds only the 12 most recent periods and
\* the reported correlations are those of exactly these periods.
C17_CorrelationOverWindow ==
    (CorrReturned /\ BothDated /\ Len(AllMonths) >= 2) =>
        LET ms == AllMonths
            window == SubSeq(ms, Max(1, Len(ms) - WindowPeriods + 1), Len(ms))
        IN  /\ EmittedMonths = window
            /\ value.monthly_comparison.correlations.count_correlation
                  = Corr(ClaimsCountSeries(window), PaymentsCountSeries(window))
            /\ value.monthly_comparison.correlations.amount_correlation
                  = Corr(ClaimsAmountSeries(window), PaymentsAmountSeries(window))

(***************************************************************************)
(* Top-10 rankings: DataFrame.nlargest(10, column) over the per-agent and  *)
(* per-product metric frames.  A frame is the sequence of its group rows   *)
(* in group order; a metric is Num(h), NaN, PosInf or NegInf.              *)
(***************************************************************************)
MaxGroups == 12

\* the 10 of nlargest(10, ...)
TopN == 10

\* a > b as floats compare; nothing compares with NaN.
Greater(a, b) ==
    /\ a.kind # "nan"
    /\ b.kind # "nan"
    /\ a # b
    /\ \/ a = PosInf
       \/ b = NegInf
       \/ a.kind = "num" /\ b.kind = "num" /\ a.h > b.h

\* The positions of rows whose column is not NaN (dropna), and the others.
Dropped(rows, col) == {i \in DOMAIN rows : rows[i][col].kind # "nan"}
NanIndex(rows, col) == {i \in DOMAIN rows : rows[i][col].kind = "nan"}

\* The rows at the positions I, largest first; among equal values the last
\* occurrence first (the behaviour C14 excludes).
DescendingLastFirst(rows, col, I) ==
    LET before(j, i) ==
            \/ Greater(rows[j][col], rows[i][col])
            \/ rows[j][col] = rows[i][col] /\ j > i
        place(i) == 1 + Cardinality({j \in I : before(j, i)})
    IN  [k \in 1..Cardinality(I) |-> rows[CHOOSE i \in I : place(i) = k]]

\* The rows at the positions I, largest first; among equal values the first
\* occurrence first (keep='first', a stable sort).
Descending(rows, col, I) ==
    LET before(j, i) ==
            \/ Greater(rows[j][col], rows[i][col])
            \/ rows[j][col] = rows[i][col] /\ j < i
        place(i) == 1 + Cardinality({j \in I : before(j, i)})
    IN  [k \in 1..Cardinality(I) |-> rows[CHOOSE i \in I : place(i) = k]]

\* The rows at the positions I in their original order.
InOrder(rows, I) ==
    LET place(i) == 1 + Cardinality({j \in I : j < i})
    IN  [k \in 1..Cardinality(I) |-> rows[CHOOSE i \in I : place(i) = k]]

Head_(sq, n) == SubSeq(sq, 1, IF Len(sq) < n THEN Len(sq) ELSE n)

\* frame.nlargest(n, col): the non-NaN rows largest first, then the NaN rows,
\* cut at n.
NLargest(rows, n, col) ==
    Head_(Descending(rows, col, Dropped(rows, col))
            \o InOrder(rows, NanIndex(rows, col)), n)

\* frame[[columns]].to_dict('records')
Records(rows, columns) ==
    [k \in DOMAIN rows |-> [c \in columns |-> rows[k][c]]]

\* active_agents = agent_performance[agent_performance['policy_number_count'] > 0]
ActiveAgents(agent_performance) ==
    SelectSeq(agent_performance, LAMBDA r : Greater(r.policy_number_count, Num(0)))

\* cross_microservice_analytics.py: the three agent rankings
TopPerformers(agent_performance) ==
    LET active_agents == ActiveAgents(agent_performance)
    IN  IF Len(active_agents) > 0
        THEN [top_agents_by_volume |->
                 Records(NLargest(active_agents, TopN, "policy_number_count"),
                         {"code_agent", "policy_number_count", "premium_sum"}),
              top_agents_by_premium |->
                 Records(NLargest(active_agents, TopN, "premium_sum"),
                         {"code_agent", "premium_sum", "policy_number_count"}),
              top_diversified_agents |->
                 Records(NLargest(active_agents, TopN, "product_id_nunique"),
                         {"code_agent", "product_id_nunique", "policy_number_count"})]
        ELSE [top_agents_by_volume |-> <<>>,
              top_agents_by_premium |-> <<>>,
              top_diversified_agents |-> <<>>]

\* postgresql_s3_analytics.py: the three product rankings
TopProducts(product_metrics) ==
    [top_products_by_volume |->
        Records(NLargest(product_metrics, TopN, "policy_number_count"),
                {"product_id", "policy_number_count", "premium_sum"}),
     top_products_by_premium |->
        Records(NLargest(product_metrics, TopN, "premium_sum"),
                {"product_id", "premium_sum", "policy_number_count"}),
     top_products_by_efficiency |->
        Records(NLargest(product_metrics, TopN, "premium_efficiency"),
                {"product_id", "premium_efficiency", "premium_mean"})]

\* Metric frames of n groups: group i carries values that repeat with the
\* periods m and m + 1, so that equal values occur inside and across the cut.
Steps == {1, 2, 3, 5}
Periods == {1, 2, 3, 7}

AgentPerformance(n, a, m) ==
    [i \in 1..n |->
        [code_agent |-> i,
         policy_number_count |-> Num((a * i) % m),
         premium_sum |-> Num(100 * ((a * i + 1) % (m + 1))),
         product_id_nunique |-> Num((i + a) % m)]]

\* premium_efficiency is a quotient: NaN and inf occur (see SeriesRatio).
ProductMetrics(n, a, m) ==
    [i \in 1..n |->
        [product_id |-> i,
         policy_number_count |-> Num(1 + ((a * i) % m)),
         premium_sum |-> Num(100 * ((a * i + 1) % (m + 1))),
         premium_mean |-> Num(100 * ((a * i) % m)),
         premium_efficiency |->
            IF (i + a) % 4 = 0 THEN NaN
            ELSE IF (i + a) % 5 = 0 THEN PosInf
            ELSE Num(50 * ((a * i) % m))]]

RankAgents ==
    /\ phase = "idle"
    /\ \E n \in 0..MaxGroups, a \in Steps, m \in Periods :
         LET agent_performance == AgentPerformance(n, a, m)
         IN  Apply("get_agent_performance_analysis", agent_performance,
                   TopPerformers(agent_performance))

RankProducts ==
    /\ phase = "idle"
    /\ \E n \in 0..MaxGroups, a \in Steps, m \in Periods :
         LET product_metrics == ProductMetrics(n, a, m)
         IN  Apply("get_product_profitability_analysis", product_metrics,
                   TopProducts(product_metrics))

NextTop ==
    \/ RankAgents
    \/ RankProducts
    \/ Finish

SpecTop == Init /\ [][NextTop]_vars

(***************************************************************************)
(* Ranking properties, over SpecTop.                                       *)
(***************************************************************************)
Ranked == phase = "done" /\ fn \in {"get_agent_performance_analysis",
                                     "get_product_profitability_analysis"}

\* The frame a ranking is taken from, its identifying column, and the metric
\* of each ranking.
RankedFrame ==
    IF fn = "get_agent_performance_analysis"
    THEN SelectSeq(args, LAMBDA r : r.policy_number_count.h > 0)
    ELSE args

RankId == IF fn = "get_agent_performance_analysis" THEN "code_agent" ELSE "product_id"

RankMetric ==
    [top_agents_by_volume |-> "policy_number_count",
     top_agents_by_premium |-> "premium_sum",
     top_diversified_agents |-> "product_id_nunique",
     top_products_by_volume |-> "policy_number_count",
     top_products_by_premium |-> "premium_sum",
     top_products_by_efficiency |-> "premium_efficiency"]

\* Position in the frame of the group with identifier id.
PositionOf(id) == CHOOSE i \in DOMAIN RankedFrame : RankedFrame[i][RankId] = id

\* a ranks strictly above b: a larger value, an undefined one (NaN) being
\* below every value.
Above(a, b) == Greater(a, b) \/ (a.kind # "nan" /\ b.kind = "nan")

\* C14: each top-10 list has at most 10 entries (all groups when there are
\* at most 10), its entries are groups of the frame with their metric, no
\* group left out ranks above a listed one, the list is in descending order
\* of the metric, and among equal values the group that comes first in the
\* frame comes first and is the one kept.
C14_TopTenDescendingStable ==
    Ranked =>
        \A l \in DOMAIN value :
            LET list == value[l]
                c == RankMetric[l]
                F == RankedFrame
                listed == {list[k][RankId] : k \in DOMAIN list}
            IN  /\ Len(list) <= 10
                /\ Len(list) = (IF Len(F) < 10 THEN Len(F) ELSE 10)
                /\ \A k \in DOMAIN list :
                      \E i \in DOMAIN F :
                          /\ F[i][RankId] = list[k][RankId]
                          /\ F[i][c] = list[k][c]
                /\ \A j, k \in DOMAIN list : j # k => list[j][RankId] # list[k][RankId]
                /\ \A j, k \in DOMAIN list :
                      j < k =>
                          /\ ~Above(list[k][c], list[j][c])
                          /\ list[j][c] = list[k][c] =>
                                PositionOf(list[j][RankId]) < PositionOf(list[k][RankId])
                /\ \A i \in DOMAIN F :
                      F[i][RankId] \notin listed =>
                          \A k \in DOMAIN list :
                              /\ ~Above(F[i][c], list[k][c])
                              /\ F[i][c] = list[k][c] => PositionOf(list[k][RankId]) < i

\* More than 10 products, equal efficiencies inside the list and across the
\* cut.
C14_Witness ==
    /\ Ranked
    /\ fn = "get_product_profitability_analysis"
    /\ Len(args) > 10
    /\ Len(value.top_products_by_efficiency) = 10
    /\ \E j, k \in DOMAIN value.top_products_by_efficiency :
          /\ j < k
          /\ value.top_products_by_efficiency[j].premium_efficiency
                = value.top_products_by_efficiency[k].premium_efficiency
    /\ \E i \in DOMAIN args :
          /\ args[i].product_id \notin
                {value.top_products_by_efficiency[k].product_id :
                    k \in DOMAIN value.top_products_by_efficiency}
          /\ args[i].premium_efficiency
                = value.top_products_by_efficiency[10].premium_efficiency

(***************************************************************************)
(* SpecQuality: mysql_s3_analytics.py, get_data_quality_report with        *)
(* _analyze_table_quality and _generate_quality_recommendations.           *)
(* Percentages are Num(h) with h in hundredths, or NaN.                    *)
(***************************************************************************)
MaxQualityRows == 2

\* pd.DataFrame() of a table that could not be loaded: no column, no row.
NoTable == [cols |-> {}, rows |-> <<>>]

\* df.isnull().sum()
NullCounts(df) ==
    [c \in df.cols |-> Cardinality({i \in DOMAIN df.rows : IsNull(df.rows[i][c])})]

\* df.duplicated().sum(): the rows equal to an earlier row.
DuplicateRows(df) ==
    Cardinality({i \in DOMAIN df.rows : \E j \in DOMAIN df.rows : j < i /\ df.rows[j] = df.rows[i]})

RECURSIVE SumOf(_, _)
SumOf(f, S) ==
    IF S = {} THEN 0
    ELSE LET x == CHOOSE y \in S : TRUE IN f[x] + SumOf(f, S \ {x})

\* _analyze_table_quality: count / total_rows of line 320 divides by zero for
\* a table that has columns and no row; without columns np.mean([]) is NaN.
AnalyzeTableQuality(df) ==
    LET total_rows == Len(df.rows)
        null_counts == NullCounts(df)
    IN  IF total_rows = 0 /\ df.cols # {}
        THEN [outcome |-> "raised", message |-> "division by zero"]
        ELSE [outcome |-> "returned",
              total_rows |-> total_rows,
              total_columns |-> Cardinality(df.cols),
              null_counts |-> null_counts,
              null_percentages |->
                 [c \in df.cols |-> Num(Round2(null_counts[c], total_rows, 100))],
              duplicate_rows |-> DuplicateRows(df),
              duplicate_percentage |-> GuardedRatio(DuplicateRows(df), total_rows, 100),
              completeness_score |->
                 IF df.cols = {} THEN NaN
                 ELSE Num(Round2(SumOf([c \in df.cols |-> total_rows - null_counts[c]], df.cols),
                                 total_rows * Cardinality(df.cols), 100))]

\* child[key].isin(parent[key]).sum(): a null key is found among null keys.
ValidReferences(child, childKey, parent, parentKey) ==
    Cardinality({i \in DOMAIN child.rows :
                    \E j \in DOMAIN parent.rows :
                        parent.rows[j][parentKey] = child.rows[i][childKey]})

\* One entry of referential_integrity (lines 271-278 and 282-289).
IntegrityEntry(child, childKey, parent, parentKey) ==
    LET valid == ValidReferences(child, childKey, parent, parentKey)
        total == Len(child.rows)
    IN  [valid_references |-> valid,
         total |-> total,
         integrity_percentage |-> GuardedRatio(valid, total, 100),
         orphaned |-> total - valid]

ReferentialIntegrity(users, clients, beneficiaries) ==
    (IF "user_id" \in clients.cols /\ "id" \in users.cols
     THEN [clients_users |-> IntegrityEntry(clients, "user_id", users, "id")]
     ELSE <<>>)
    @@ (IF "client_id" \in beneficiaries.cols /\ "user_id" \in clients.cols
        THEN [beneficiaries_clients |->
                 IntegrityEntry(beneficiaries, "client_id", clients, "user_id")]
        ELSE <<>>)

\* value < h as Python compares floats: False for NaN.
Below(v, h) == v.kind = "num" /\ v.h < h
Over(v, h) == v.kind = "num" /\ v.h > h

\* The tables and relationships in the order the dicts are filled.
TableOrder == <<"users", "clients", "agents", "beneficiaries">>
RelationOrder == <<"clients_users", "beneficiaries_clients">>

Recommendation(rule, on) == [rule |-> rule, on |-> on]
Acceptable == Recommendation("La calidad de datos esta en buen estado general", "")

\* The recommendations of one table, of one relationship.
TableRecommendations(table, report) ==
    (IF Below(report.completeness_score, 9000)
     THEN <<Recommendation("Mejorar completeness", table)>> ELSE <<>>)
    \o (IF Over(report.duplicate_percentage, 100)
        THEN <<Recommendation("Revisar y eliminar duplicados", table)>> ELSE <<>>)

RelationRecommendations(relationship, integrity) ==
    IF Below(integrity.integrity_percentage, 9500)
    THEN <<Recommendation("Corregir referencias huerfanas", relationship)>> ELSE <<>>

RECURSIVE Concat(_)
Concat(sqs) == IF sqs = <<>> THEN <<>> ELSE Head(sqs) \o Concat(Tail(sqs))

\* The keys of the mapping d in the order given by order.
KeysInOrder(d, order) == SelectSeq(order, LAMBDA k : k \in DOMAIN d)

\* _generate_quality_recommendations without the referential rule (the
\* behaviour C20 excludes).
GenerateQualityRecommendationsTablesOnly(quality_report, integrity_report) ==
    LET tables == KeysInOrder(quality_report, TableOrder)
        recommendations ==
            Concat([k \in DOMAIN tables |->
                       TableRecommendations(tables[k], quality_report[tables[k]])])
    IN  IF recommendations = <<>> THEN <<Acceptable>> ELSE recommendations

\* _generate_quality_recommendations
GenerateQualityRecommendations(quality_report, integrity_report) ==
    LET tables == KeysInOrder(quality_report, TableOrder)
        relations == KeysInOrder(integrity_report, RelationOrder)
        recommendations ==
            Concat([k \in DOMAIN tables |->
                       TableRecommendations(tables[k], quality_report[tables[k]])])
            \o Concat([k \in DOMAIN relations |->
                          RelationRecommendations(relations[k], integrity_report[relations[k]])])
    IN  IF recommendations = <<>> THEN <<Acceptable>> ELSE recommendations

\* round(np.mean(completeness scores), 2): NaN as soon as one score is NaN.
OverallCompleteness(quality_report) ==
    IF \E t \in DOMAIN quality_report : quality_report[t].completeness_score.kind = "nan"
    THEN NaN
    ELSE Num(RoundHalfEven(SumOf([t \in DOMAIN quality_report |->
                                     quality_report[t].completeness_score.h],
                                 DOMAIN quality_report),
                           Cardinality(DOMAIN quality_report)))

\* get_data_quality_report: any exception is re-raised with the prefix.
DataQualityReport(users, clients, agents, beneficiaries) ==
    LET quality_report ==
            [users |-> AnalyzeTableQuality(users),
             clients |-> AnalyzeTableQuality(clients),
             agents |-> AnalyzeTableQuality(agents),
             beneficiaries |-> AnalyzeTableQuality(beneficiaries)]
        referential_integrity == ReferentialIntegrity(users, clients, beneficiaries)
    IN  IF \E t \in DOMAIN quality_report : quality_report[t].outcome = "raised"
        THEN [outcome |-> "raised",
              message |-> "Error analyzing data quality: division by zero"]
        ELSE [outcome |-> "returned",
              summary |->
                 [total_records |-> Len(users.rows) + Len(clients.rows)
                                     + Len(agents.rows) + Len(beneficiaries.rows),
                  overall_completeness_score |-> OverallCompleteness(quality_report)],
              table_quality |-> quality_report,
              referential_integrity |-> referential_integrity,
              recommendations |->
                 GenerateQualityRecommendations(quality_report, referential_integrity)]

\* The tables of the report: a key column with null, 1 or 2 in each row, or
\* no table at all; agents with two columns.
KeyFrames(key) == {NoTable} \cup Frames([c \in {key} |-> KeyCells], MaxQualityRows)

AgentFrames ==
    {NoTable,
     [cols |-> {"code", "name"}, rows |-> <<[code |-> <<1>>, name |-> Null]>>],
     [cols |-> {"code", "name"},
      rows |-> <<[code |-> <<1>>, name |-> <<7>>], [code |-> <<1>>, name |-> <<7>>]>>]}

\* Table reports and integrity entries around the thresholds.
ScoreValues == {NaN, Num(0), Num(8999), Num(9000), Num(9001), Num(10000)}
DuplicateValues == {Num(0), Num(100), Num(101)}
IntegrityValues == {Num(0), Num(9499), Num(9500), Num(10000)}

TableReports ==
    [completeness_score : ScoreValues, duplicate_percentage : DuplicateValues]

IntegrityReports ==
    {<<>>}
    \cup {[clients_users |-> [integrity_percentage |-> p]] : p \in IntegrityValues}
    \cup {[clients_users |-> [integrity_percentage |-> p],
           beneficiaries_clients |-> [integrity_percentage |-> q]] :
             p \in IntegrityValues, q \in IntegrityValues}

QualityInput(users, clients, agents, beneficiaries) ==
    [users |-> users, clients |-> clients, agents |-> agents,
     beneficiaries |-> beneficiaries]

GetDataQualityReport ==
    /\ phase = "idle"
    /\ \E users \in KeyFrames("id"), clients \in KeyFrames("user_id"),
          agents \in AgentFrames, beneficiaries \in KeyFrames("client_id") :
         Apply("get_data_quality_report",
               QualityInput(users, clients, agents, beneficiaries),
               DataQualityReport(users, clients, agents, beneficiaries))

\* _generate_quality_recommendations on reports around its thresholds.
GenerateRecommendations ==
    /\ phase = "idle"
    /\ \E u \in TableReports, c \in TableReports, integrity_report \in IntegrityReports :
         LET quality_report == [users |-> u, clients |-> c]
         IN  Apply("_generate_quality_recommendations",
                   [quality_report |-> quality_report,
                    integrity_report |-> integrity_report],
                   [outcome |-> "returned",
                    table_quality |-> quality_report,
                    referential_integrity |-> integrity_report,
                    recommendations |->
                       GenerateQualityRecommendations(quality_report, integrity_report)])

NextQuality ==
    \/ GetDataQualityReport
    \/ GenerateRecommendations
    \/ Finish

SpecQuality == Init /\ [][NextQuality]_vars

(***************************************************************************)
(* Data quality properties, over SpecQuality.                              *)
(***************************************************************************)
QualityReported == phase = "done" /\ fn = "get_data_quality_report"

Recommended ==
    /\ phase = "done"
    /\ fn \in {"get_data_quality_report", "_generate_quality_recommendations"}
    /\ value.outcome = "returned"

\* A table report that says explicitly that the table has no data.
NoDataFlag(report) == "no_data" \in DOMAIN report /\ report.no_data = TRUE

\* Non-null cells of the table, all cells of the table.
FilledCells(df) ==
    Cardinality({<<i, c>> \in (DOMAIN df.rows) \X df.cols : ~IsNull(df.rows[i][c])})

AllCells(df) == Len(df.rows) * Cardinality(df.cols)

\* C18: for a table with zero rows the table report is returned with
\* completeness_score 0, an explicit no-data flag and duplicate_percentage 0;
\* for a table with rows completeness_score is the mean over the columns of
\* (rows - nulls) / rows, as a percentage.
C18_TableQualityOnZeroRows ==
    QualityReported =>
        \A t \in DOMAIN args :
            /\ Len(args[t].rows) = 0 =>
                  /\ value.outcome = "returned"
                  /\ value.table_quality[t].completeness_score = Num(0)
                  /\ NoDataFlag(value.table_quality[t])
                  /\ value.table_quality[t].duplicate_percentage = Num(0)
            /\ (Len(args[t].rows) > 0 /\ value.outcome = "returned") =>
                  value.table_quality[t].completeness_score
                     = Num(RoundHalfEven(10000 * FilledCells(args[t]), AllCells(args[t])))

\* The child rows whose key occurs in the key column of the parent.
Referencing(child, childKey, parent, parentKey) ==
    {i \in DOMAIN child.rows :
        child.rows[i][childKey] \in {parent.rows[j][parentKey] : j \in DOMAIN parent.rows}}

\* What C19 states of one relationship.
IntegrityAsStated(entry, child, childKey, parent, parentKey) ==
    LET valid == Cardinality(Referencing(child, childKey, parent, parentKey))
        total == Len(child.rows)
    IN  /\ entry.valid_references = valid
        /\ entry.orphaned = total - valid
        /\ entry.integrity_percentage =
              (IF total = 0 THEN Num(0) ELSE Num(RoundHalfEven(10000 * valid, total)))
        /\ (total > 0 /\ valid = total) =>
              entry.integrity_percentage = Num(10000) /\ entry.orphaned = 0
        /\ (total > 0 /\ valid = 0) => entry.integrity_percentage = Num(0)

\* C19: whenever the key columns of a relationship exist the report carries
\* its check with valid_references, orphaned = total - valid and
\* integrity_percentage = valid / total * 100, which is 0 for a child table
\* of 0 rows, 100 with 0 orphans when every child key matches and 0 when
\* none does.
C19_ReferentialIntegrityAsStated ==
    QualityReported =>
        /\ ("user_id" \in args.clients.cols /\ "id" \in args.users.cols) =>
              /\ value.outcome = "returned"
              /\ "clients_users" \in DOMAIN value.referential_integrity
              /\ IntegrityAsStated(value.referential_integrity.clients_users,
                                   args.clients, "user_id", args.users, "id")
        /\ ("client_id" \in args.beneficiaries.cols /\ "user_id" \in args.clients.cols) =>
              /\ value.outcome = "returned"
              /\ "beneficiaries_clients" \in DOMAIN value.referential_integrity
              /\ IntegrityAsStated(value.referential_integrity.beneficiaries_clients,
                                   args.beneficiaries, "client_id", args.clients, "user_id")

\* The rules that trigger on a returned report.
CompletenessTriggers ==
    {t \in DOMAIN value.table_quality :
        /\ value.table_quality[t].completeness_score.kind = "num"
        /\ value.table_quality[t].completeness_score.h < 9000}

DuplicateTriggers ==
    {t \in DOMAIN value.table_quality :
        /\ value.table_quality[t].duplicate_percentage.kind = "num"
        /\ value.table_quality[t].duplicate_percentage.h > 100}

OrphanTriggers ==
    {r \in DOMAIN value.referential_integrity :
        /\ value.referential_integrity[r].integrity_percentage.kind = "num"
        /\ value.referential_integrity[r].integrity_percentage.h < 9500}

\* C20: the recommendations hold the completeness message of a table iff its
\* completeness_score < 90, its duplicates message iff its
\* duplicate_percentage > 1, the orphan message of a relationship iff its
\* integrity_percentage < 95, each once and nothing else; when none
\* triggers they are exactly the one statement that quality is acceptable.
C20_RecommendationsByThreshold ==
    Recommended =>
        LET recs == value.recommendations
            expected ==
                {Recommendation("Mejorar completeness", t) : t \in CompletenessTriggers}
                \cup {Recommendation("Revisar y eliminar duplicados", t) : t \in DuplicateTriggers}
                \cup {Recommendation("Corregir referencias huerfanas", r) : r \in OrphanTriggers}
        IN  /\ \A j, k \in DOMAIN recs : j # k => recs[j] # recs[k]
            /\ expected # {} => Range(recs) = expected
            /\ expected = {} => recs = <<Acceptable>>

C20_Witness ==
    /\ Recommended
    /\ fn = "_generate_quality_recommendations"
    /\ value.table_quality.users.completeness_score = Num(9000)
    /\ value.table_quality.users.duplicate_percentage = Num(100)
    /\ value.table_quality.clients.completeness_score = Num(8999)
    /\ value.table_quality.clients.duplicate_percentage = Num(101)
    /\ "beneficiaries_clients" \in DOMAIN value.referential_integrity
    /\ value.referential_integrity.clients_users.integrity_percentage = Num(9500)
    /\ value.referential_integrity.beneficiaries_clients.integrity_percentage = Num(9499)
    /\ value.recommendations =
          <<Recommendation("Mejorar completeness", "clients"),
            Recommendation("Revisar y eliminar duplicados", "clients"),
            Recommendation("Corregir referencias huerfanas", "beneficiaries_clients")>>

(***************************************************************************)
(* SpecInsight: cassandra_s3_analytics.py, the loss ratio of general_stats *)
(* and _generate_claims_payments_insights around its thresholds.           *)
(***************************************************************************)
\* Reported loss ratios, claims-to-payments ratios (hundredths) and count
\* correlations (sign and r * r) on both sides of every threshold.
LossRatioValues == {Num(0), Num(2999), Num(3000), Num(3001), Num(8000), Num(8001), Num(9000)}
FrequencyValues == {Num(0), Num(9), Num(10), Num(11), Num(50), Num(51)}

CorrOf(sign, num, den) == [kind |-> "corr", sign |-> sign, num |-> num, den |-> den]

CorrelationValues ==
    {NaN, CorrOf(0, 0, 1), CorrOf(1, 49, 100), CorrOf(-1, 49, 100),
     CorrOf(1, 1, 2), CorrOf(-1, 1, 2), CorrOf(1, 1, 1), CorrOf(-1, 1, 1)}

\* The general_stats the caller passes: loss_ratio is a key only when
\* computed.
GeneralStatsValues ==
    {[claims_to_payments_ratio |-> f] : f \in FrequencyValues}
    \cup {[claims_to_payments_ratio |-> f, loss_ratio |-> l] :
             f \in FrequencyValues, l \in LossRatioValues}

\* The monthly_comparison the caller passes: {}, one without correlations,
\* one with both correlations.
MonthlyComparisonValues ==
    {<<>>, [correlations |-> <<>>, monthly_data |-> <<>>]}
    \cup {[correlations |-> [count_correlation |-> c, amount_correlation |-> NaN],
           monthly_data |-> <<>>] : c \in CorrelationValues}

\* Totals of the two tables: amounts in whole units, row counts.
TotalAmounts == {0, 30, 80, 90, 100, 125}
TotalRows == {0, 1, 4}

\* What the function leaves in its two arguments and what it returns.
InsightResult(general_stats, monthly_comparison) ==
    [general_statistics |-> general_stats,
     monthly_comparison |-> monthly_comparison,
     insights |-> GenerateClaimsPaymentsInsights(general_stats, monthly_comparison)]

\* _generate_claims_payments_insights on mappings around the thresholds.
GenerateInsights ==
    /\ phase = "idle"
    /\ \E general_stats \in GeneralStatsValues,
          monthly_comparison \in MonthlyComparisonValues :
         Apply("_generate_claims_payments_insights",
               [general_stats |-> general_stats,
                monthly_comparison |-> monthly_comparison],
               InsightResult(general_stats, monthly_comparison))

\* general_stats (lines 188-199) from the totals of reclamos and pagos, then
\* the insights.
ComputeGeneralStats ==
    /\ phase = "idle"
    /\ \E total_claims \in TotalRows, total_payments \in TotalRows,
          total_claims_amount \in TotalAmounts, total_payments_amount \in TotalAmounts :
         LET general_stats ==
                 [total_claims |-> total_claims,
                  total_payments |-> total_payments,
                  total_claims_amount |-> total_claims_amount,
                  total_payments_amount |-> total_payments_amount]
                 @@ GeneralStatsRatios(total_claims, total_payments,
                                       total_claims_amount, total_payments_amount)
         IN  Apply("general_stats",
                   [total_claims |-> total_claims,
                    total_payments |-> total_payments,
                    total_claims_amount |-> total_claims_amount,
                    total_payments_amount |-> total_payments_amount],
                   InsightResult(general_stats, <<>>))

NextInsight ==
    \/ GenerateInsights
    \/ ComputeGeneralStats
    \/ Finish

SpecInsight == Init /\ [][NextInsight]_vars

(***************************************************************************)
(* Insight properties, over SpecInsight.                                   *)
(***************************************************************************)
Insighted == phase = "done" /\ fn \in {"_generate_claims_payments_insights", "general_stats"}

\* How often the message m occurs in the emitted list.
Occurrences(m) == Cardinality({k \in DOMAIN value.insights : value.insights[k] = m})

RuleOf(m) ==
    IF m \in LossRatioInsights THEN 1
    ELSE IF m \in FrequencyInsights THEN 2
    ELSE IF m \in {"Correlacion fuerte", "Correlacion fuerte inversa"} THEN 3
    ELSE 0

\* The count correlation the function was given, NaN when it was given none.
GivenCountCorrelation ==
    IF value.monthly_comparison = <<>> THEN NaN
    ELSE IF value.monthly_comparison.correlations = <<>> THEN NaN
    ELSE value.monthly_comparison.correlations.count_correlation

\* C22: the emitted list is a subsequence of (loss-ratio message,
\* claims-frequency message, correlation message) with at most one message
\* per rule; the high-frequency message iff the claims-to-payments ratio is
\* > 0.5, the low-frequency message iff it is < 0.1, the strong-correlation
\* message iff |count correlation| > 0.7, worded inverse iff the correlation
\* is negative; the two input mappings are left as they were.
C22_InsightRulesInOrder ==
    (Insighted /\ fn = "_generate_claims_payments_insights") =>
        LET ins == value.insights
            ratio == value.general_statistics.claims_to_payments_ratio.h
            r == GivenCountCorrelation
            strong == r.kind = "corr" /\ 100 * r.num > 49 * r.den
        IN  /\ \A k \in DOMAIN ins : RuleOf(ins[k]) \in 1..3
            /\ \A j, k \in DOMAIN ins : j < k => RuleOf(ins[j]) < RuleOf(ins[k])
            /\ Occurrences("Alta frecuencia de reclamos") = (IF ratio > 50 THEN 1 ELSE 0)
            /\ Occurrences("Baja frecuencia de reclamos") = (IF ratio < 10 THEN 1 ELSE 0)
            /\ Occurrences("Correlacion fuerte") = (IF strong /\ r.sign > 0 THEN 1 ELSE 0)
            /\ Occurrences("Correlacion fuerte inversa") = (IF strong /\ r.sign < 0 THEN 1 ELSE 0)
            /\ value.general_statistics = args.general_stats
            /\ value.monthly_comparison = args.monthly_comparison

C22_Witness ==
    /\ Insighted
    /\ fn = "_generate_claims_payments_insights"
    /\ "loss_ratio" \in DOMAIN value.general_statistics
    /\ value.general_statistics.loss_ratio = Num(8000)
    /\ value.general_statistics.claims_to_payments_ratio = Num(51)
    /\ GivenCountCorrelation = CorrOf(-1, 1, 2)
    /\ value.insights = <<"Indice de siniestralidad moderado",
                          "Alta frecuencia de reclamos",
                          "Correlacion fuerte inversa">>

(***************************************************************************)
(* SpecRequests: report requests served concurrently (the endpoints are    *)
(* plain functions, run on worker threads).  value holds the heap of       *)
(* DataFrame objects, each request's position and local names, and the     *)
(* registry of the shared s3_manager; args holds the requests.             *)
(***************************************************************************)
Requests == {1, 2}

\* A request: the report asked for and the columns its tables turn out to
\* have (the products key, a claims join key, the date columns).
RequestKinds ==
    [kind : {"get_claims_vs_policies_analysis"},
     product_key : BOOLEAN, join_key : BOOLEAN, dated : BOOLEAN]
    \cup [kind : {"get_claims_payments_correlation"},
          product_key : {FALSE}, join_key : {FALSE}, dated : BOOLEAN]

\* The tables a report loads, in the order of its get_*_data calls.
LoadOrder(kind) ==
    IF kind = "get_claims_vs_policies_analysis"
    THEN << <<"postgresql", "policies">>, <<"cassandra", "reclamos">>,
            <<"postgresql", "products">> >>
    ELSE << <<"cassandra", "reclamos">>, <<"cassandra", "pagos">> >>

\* A DataFrame object: the request and function that created it, the columns
\* set in place after creation and the functions that set them.
NewFrame(r, function) ==
    [owner |-> r, by |-> function, added |-> {}, mutated_by |-> {}]

\* df[column] = ... executed by the function for request r.
SetItem(heap, id, r, function, columns) ==
    [heap EXCEPT ![id] =
        [@ EXCEPT !.added = @ \cup columns,
                  !.mutated_by = @ \cup {<<r, function>>}]]

Serving == phase = "serving" /\ fn = "requests"

At(r, pc) == Serving /\ value.pc[r] = pc

\* Requests arrive; nothing is loaded yet.
AcceptRequests ==
    /\ phase = "idle"
    /\ \E reqs \in [Requests -> RequestKinds] :
         /\ phase' = "serving"
         /\ fn' = "requests"
         /\ args' = reqs
         /\ value' = [pc |-> [r \in Requests |-> "load"],
                      locals |-> [r \in Requests |-> <<>>],
                      heap |-> <<>>,
                      data_paths |-> DataPaths]
    /\ UNCHANGED <<call, store, loaded, joined, outcome, result, message, response>>
    /\ UNCHANGED binVars

Continue(v) ==
    /\ value' = v
    /\ UNCHANGED <<phase, fn, args>>
    /\ UNCHANGED <<call, store, loaded, joined, outcome, result, message, response>>
    /\ UNCHANGED binVars

\* get_*_data(table): the key is read from data_paths and read_csv returns a
\* new DataFrame, bound to a local name of the request.
LoadTable(r) ==
    /\ At(r, "load")
    /\ LET order == LoadOrder(args[r].kind)
           k == Cardinality(DOMAIN value.locals[r]) + 1
           table == order[k][2]
           id == Len(value.heap) + 1
       IN  /\ table \in DOMAIN value.data_paths[order[k][1]]
           /\ Continue([value EXCEPT
                  !.heap = Append(@, NewFrame(r, "load_csv_from_s3")),
                  !.locals[r] = @ @@ (table :> id),
                  !.pc[r] = IF k < Len(order) THEN "load"
                            ELSE IF args[r].kind = "get_claims_vs_policies_analysis"
                            THEN "merge_products" ELSE "prepare"])

\* cross_microservice_analytics.py 212-215: policies_with_products is the
\* merged frame, or policies_df itself when a key is missing.
MergeProducts(r) ==
    /\ At(r, "merge_products")
    /\ IF args[r].product_key
       THEN Continue([value EXCEPT
                !.heap = Append(@, NewFrame(r, "merge")),
                !.locals[r] = @ @@ ("policies_with_products" :> (Len(value.heap) + 1)),
                !.pc[r] = "join"])
       ELSE Continue([value EXCEPT
                !.locals[r] = @ @@ ("policies_with_products" :> value.locals[r]["policies"]),
                !.pc[r] = "join"])

\* 218-229: the join with the claims, or the separate analysis.
JoinClaims(r) ==
    /\ At(r, "join")
    /\ IF args[r].join_key
       THEN Continue([value EXCEPT
                !.heap = Append(@, NewFrame(r, "merge")),
                !.locals[r] = @ @@ ("claims_policies" :> (Len(value.heap) + 1)),
                !.pc[r] = "analyze"])
       ELSE Continue([value EXCEPT !.pc[r] = "separate_policies"])

\* 232-281: the joined analysis only reads claims_policies.
AnalyzeJoined(r) ==
    /\ At(r, "analyze")
    /\ Continue([value EXCEPT !.pc[r] = "done"])

\* _analyze_separate_claims_policies(policies_with_products, claims_df),
\* 292-297: created_at and month_year are set on the frame passed in.
SeparatePolicies(r) ==
    /\ At(r, "separate_policies")
    /\ Continue([value EXCEPT
           !.heap = IF args[r].dated
                    THEN SetItem(@, value.locals[r]["policies_with_products"], r,
                                 "_analyze_separate_claims_policies",
                                 {"created_at", "month_year"})
                    ELSE @,
           !.pc[r] = "separate_claims"])

\* 299-303: fecha_reclamo and month_year are set on the claims frame passed
\* in.
SeparateClaims(r) ==
    /\ At(r, "separate_claims")
    /\ Continue([value EXCEPT
           !.heap = IF args[r].dated
                    THEN SetItem(@, value.locals[r]["reclamos"], r,
                                 "_analyze_separate_claims_policies",
                                 {"fecha_reclamo", "month_year"})
                    ELSE @,
           !.pc[r] = "done"])

\* cassandra_s3_analytics.py 100-106: the report sets the date columns on
\* the frames it loaded itself.
PrepareDates(r) ==
    /\ At(r, "prepare")
    /\ Continue([value EXCEPT
           !.heap = IF args[r].dated
                    THEN SetItem(SetItem(@, value.locals[r]["reclamos"], r,
                                         "get_claims_payments_correlation",
                                         {"fecha_reclamo", "month_year"}),
                                 value.locals[r]["pagos"], r,
                                 "get_claims_payments_correlation",
                                 {"fecha_pago", "month_year"})
                    ELSE @,
           !.pc[r] = "insights"])

\* 206: _generate_claims_payments_insights reads two mappings.
ReadInsights(r) ==
    /\ At(r, "insights")
    /\ Continue([value EXCEPT !.pc[r] = "done"])

\* Every request has its result.
Respond ==
    /\ Serving
    /\ \A r \in Requests : value.pc[r] = "done"
    /\ phase' = "done"
    /\ UNCHANGED <<fn, args, value>>
    /\ UNCHANGED <<call, store, loaded, joined, outcome, result, message, response>>
    /\ UNCHANGED binVars

NextRequests ==
    \/ AcceptRequests
    \/ \E r \in Requests : LoadTable(r)
    \/ \E r \in Requests : MergeProducts(r)
    \/ \E r \in Requests : JoinClaims(r)
    \/ \E r \in Requests : AnalyzeJoined(r)
    \/ \E r \in Requests : SeparatePolicies(r)
    \/ \E r \in Requests : SeparateClaims(r)
    \/ \E r \in Requests : PrepareDates(r)
    \/ \E r \in Requests : ReadInsights(r)
    \/ Respond
    \/ Finish

SpecRequests == Init /\ [][NextRequests]_vars

(***************************************************************************)
(* Isolation properties, over SpecRequests.                                *)
(***************************************************************************)
Requested == fn = "requests" /\ phase \in {"serving", "done"}

\* The functions that receive their tables from a caller.
Helpers == {"_analyze_separate_claims_policies"}

\* Every frame a request can reach was created for it and written only by
\* it; the registry is as constructed.
RequestsIsolated ==
    /\ \A r \in Requests : \A n \in DOMAIN value.locals[r] :
          LET frame == value.heap[value.locals[r][n]]
          IN  /\ frame.owner = r
              /\ \A w \in frame.mutated_by : w[1] = r
    /\ value.data_paths = DataPaths

\* No frame is written in place by a helper it was passed to.
NoHelperMutation ==
    \A id \in DOMAIN value.heap :
        \A w \in value.heap[id].mutated_by :
            w[2] \in Helpers => value.heap[id].by = w[2]

\* C23: in every interleaving of concurrent requests no request reaches a
\* table written by another request, the shared registry is never written,
\* and no helper mutates a table its caller passed in.
C23_NoSharedMutableState ==
    Requested => (RequestsIsolated /\ NoHelperMutation)

(***************************************************************************)
(* SpecHealth: s3_data_manager.py check_data_availability and main.py      *)
(* health_check.  An object of the bucket either exists or not, and        *)
(* head_object answers it with ok, with a ClientError (404 NotFound, 403   *)
(* Forbidden) or with an exception that is no ClientError (the endpoint    *)
(* cannot be reached, no credentials).                                     *)
(***************************************************************************)
MaxFailing == 2

\* data_paths in the order its items() are visited.
RegistryOrder ==
    << <<"mysql", "users">>, <<"mysql", "clients">>, <<"mysql", "agents">>,
       <<"mysql", "beneficiaries">>,
       <<"postgresql", "products">>, <<"postgresql", "policies">>,
       <<"postgresql", "policy_coverage">>, <<"postgresql", "policy_beneficiaries">>,
       <<"cassandra", "reclamos">>, <<"cassandra", "pagos">>,
       <<"cassandra", "transaction_audit">> >>

Present == [exists |-> TRUE, head |-> "ok"]

HeadFailures ==
    {[exists |-> FALSE, head |-> "NotFound"],
     [exists |-> TRUE, head |-> "Forbidden"],
     [exists |-> FALSE, head |-> "Forbidden"],
     [exists |-> TRUE, head |-> "ConnectionError"]}

ClientErrors == {"NotFound", "Forbidden"}

\* The buckets in which at most MaxFailing registered objects are not plainly
\* present.
Buckets ==
    UNION {{[k \in StorageKeys |-> IF k \in F THEN d[k] ELSE Present] :
               d \in [F -> HeadFailures]} :
           F \in SubsetsUpTo(StorageKeys, MaxFailing)}

\* check_data_availability: True on success, False on ClientError; any other
\* exception of head_object leaves the loops.
CheckDataAvailability(bucket) ==
    IF \E k \in DOMAIN RegistryOrder :
          bucket[DataPaths[RegistryOrder[k][1]][RegistryOrder[k][2]]].head
             \notin {"ok"} \cup ClientErrors
    THEN [outcome |-> "raised", message |-> "ConnectionError"]
    ELSE [outcome |-> "returned",
          availability |->
             [db \in DOMAIN DataPaths |->
                 [t \in DOMAIN DataPaths[db] |-> bucket[DataPaths[db][t]].head = "ok"]]]

\* get_s3_bucket_summary: every exception becomes an error mapping.
BucketSummary(listing) ==
    IF listing = "ok" THEN [total_objects |-> Cardinality(StorageKeys)]
    ELSE [error |-> listing]

\* health_check: OK with the availability, ERROR with the message.
HealthCheck(bucket, listing) ==
    LET data_availability == CheckDataAvailability(bucket)
    IN  IF data_availability.outcome = "raised"
        THEN [outcome |-> "returned", status |-> "ERROR",
              error |-> data_availability.message]
        ELSE [outcome |-> "returned", status |-> "OK",
              data_availability |-> data_availability.availability,
              bucket_summary |-> BucketSummary(listing)]

ProbeAvailability ==
    /\ phase = "idle"
    /\ \E bucket \in Buckets :
         Apply("check_data_availability", [bucket |-> bucket],
               CheckDataAvailability(bucket))

ProbeHealth ==
    /\ phase = "idle"
    /\ \E bucket \in Buckets, listing \in {"ok", "ConnectionError"} :
         Apply("health_check", [bucket |-> bucket, listing |-> listing],
               HealthCheck(bucket, listing))

NextHealth ==
    \/ ProbeAvailability
    \/ ProbeHealth
    \/ Finish

SpecHealth == Init /\ [][NextHealth]_vars

\* C24: check_data_availability never raises: whatever head_object reports
\* it returns one boolean for every registered (database, table) pair, True
\* iff the object exists; health_check always returns a mapping whose status
\* is OK or ERROR.
C24_AvailabilityProbeNeverRaises ==
    /\ (phase = "done" /\ fn = "check_data_availability") =>
          /\ value.outcome = "returned"
          /\ DOMAIN value.availability = DOMAIN DataPaths
          /\ \A db \in DOMAIN DataPaths :
                /\ DOMAIN value.availability[db] = DOMAIN DataPaths[db]
                /\ \A t \in DOMAIN DataPaths[db] :
                      value.availability[db][t] = args.bucket[DataPaths[db][t]].exists
    /\ (phase = "done" /\ fn = "health_check") =>
          /\ value.outcome = "returned"
          /\ value.status \in {"OK", "ERROR"}

(***************************************************************************)
(* Provenance: the data_sources block of each report function's result,    *)
(* over Spec.                                                              *)
(***************************************************************************)
NoDataSources == [tables |-> {}, join_keys |-> <<>>]

\* The data_sources block the function writes into a report: the tables it
\* names and the join keys it names (join_approach for the claims reports).
DataSources ==
    [get_customer_policy_profile |->
        [tables |-> {"users", "clients", "policies"},
         join_keys |-> <<"user_id -> customer_id">>],
     get_agent_performance_across_systems |->
        [tables |-> {"agents", "policies", "products"},
         join_keys |-> <<"agent.code -> policy.agent_id">>],
     get_claims_vs_policies_analysis |->
        [tables |-> {"policies", "products", "reclamos"},
         join_keys |-> <<"policy_id or policy_number matching">>],
     get_claims_payments_correlation |->
        [tables |-> {"reclamos", "pagos"}, join_keys |-> <<>>],
     get_claims_analysis |-> NoDataSources,
     get_product_analysis |-> NoDataSources,
     get_product_profitability_analysis |-> NoDataSources]

\* The block of the result at hand: none in an error mapping or in a report
\* without the data_sources key.
DataSourcesOf(name, res) ==
    IF "data_sources" \in res.sections THEN DataSources[name] ELSE NoDataSources

\* C25: every successful result of a report function has a data_sources
\* block that names the tables combined and the key that combines them.
C25_ResultNamesDataSources ==
    (Called /\ outcome = "returned") =>
        /\ "data_sources" \in result.sections
        /\ DataSourcesOf(call, result).tables # {}
        /\ DataSourcesOf(call, result).join_keys # <<>>

(***************************************************************************)
(* SpecHttp: the endpoints of Spec and GET /mysql/analytics/growth-by-state *)
(* (mysql_s3_analytics.py get_user_growth_by_state).                       *)
(***************************************************************************)
\* get_user_growth_by_state: the error mapping when created_at or state is
\* missing; pd.to_datetime raises on a created_at value that is no date.
GetUserGrowthByState(objects, parseable) ==
    LET prefix == "Error analyzing user growth: "
        ld == LoadInOrder(<< <<"mysql", "users">> >>, objects, 1)
        users == Df("mysql", "users", objects)
        r == IF ld.error # <<>>
             THEN Raised(prefix, ld.error, <<>>)
             ELSE IF "created_at" \notin users.cols \/ "state" \notin users.cols
             THEN Returned(ErrorMapping("Missing required columns: created_at or state"), <<>>)
             ELSE IF ~parseable
             THEN Raised(prefix, <<"ValueError ", "created_at">>, <<>>)
             ELSE Returned(Report({"period_analyzed", "total_new_users", "top_growing_states",
                                   "monthly_growth", "growth_by_state_and_month",
                                   "growth_rate"}), <<>>)
    IN  [loaded |-> ld.loaded] @@ r

\* GET /mysql/analytics/growth-by-state?months=...
get_mysql_user_growth_by_state ==
    /\ phase = "idle"
    /\ \E status \in ObjectStatus, cols \in SUBSET {"id", "created_at", "state"},
          rows \in 0..MaxRows, parseable \in BOOLEAN :
         /\ status # "ok" => (cols = {} /\ rows = 0)
         /\ ~parseable => (rows > 0 /\ "created_at" \in cols)
         /\ LET objects == [k \in {DataPaths.mysql.users} |->
                               [status |-> status, cols |-> cols, rows |-> rows]]
            IN  Handle("get_user_growth_by_state", objects,
                       GetUserGrowthByState(objects, parseable))

NextHttp ==
    \/ get_cross_customer_policy_profile
    \/ get_cross_agent_performance
    \/ get_cross_claims_vs_policies
    \/ get_cassandra_claims_analysis
    \/ get_cassandra_claims_payments_correlation
    \/ get_postgresql_product_analysis
    \/ get_postgresql_product_profitability
    \/ get_mysql_user_growth_by_state
    \/ Finish

SpecHttp == Init /\ [][NextHttp]_vars

\* C30: an endpoint answers an exception of its report function with status
\* 500 and the exception message as detail, and a returned mapping with a
\* success status and that mapping as body; so the {"error": ...} mapping of
\* a report that lacks join keys or columns is delivered with a success
\* status.
C30_EndpointMapsOutcomeToResponse ==
    Called =>
        /\ outcome = "raised" =>
              /\ response.status = 500
              /\ response.detail = message
              /\ message # <<>>
        /\ outcome = "returned" =>
              /\ response.status = 200
              /\ response.body = result
        /\ outcome \in {"raised", "returned"}
        /\ (outcome = "returned" /\ result.kind = "error") => response.status = 200

C30_Witness ==
    /\ Called
    /\ call = "get_user_growth_by_state"
    /\ outcome = "returned"
    /\ result.kind = "error"
    /\ response.status = 200
    /\ response.body.error = "Missing required columns: created_at or state"

(***************************************************************************)
(* SpecProfile: get_customer_policy_profile on rows: users joined to       *)
(* clients (inner), then to policies (left); the summary and the customer  *)
(* value tiers.                                                            *)
(***************************************************************************)
MaxPolicies == 2

CustomerIds == {1, 2, 3}

\* users: one row per id (a primary key).
UsersFrames ==
    {[cols |-> {"id"}, rows |-> [i \in 1..Len(ids) |-> [id |-> <<ids[i]>>]]] :
        ids \in {SortedSeq(S) : S \in SUBSET CustomerIds}}

\* clients: a row per user_id of a set of references, one of them null or
\* repeated.
ClientsFrames ==
    {[cols |-> {"user_id"},
      rows |-> [i \in 1..Len(ks) |-> [user_id |-> ks[i]]]] :
        ks \in {[i \in 1..Len(s) |-> <<s[i]>>] \o extra :
                   s \in {SortedSeq(S) : S \in SUBSET CustomerIds},
                   extra \in {<<>>, <<Null>>, << <<1>> >>}}}

\* policies: rows with or without a customer, a policy number, a premium.
PolicyRows ==
    {[customer_id |-> <<1>>, policy_number |-> <<"P">>, premium |-> <<10>>],
     [customer_id |-> <<1>>, policy_number |-> <<"P">>, premium |-> <<30>>],
     [customer_id |-> <<2>>, policy_number |-> <<"P">>, premium |-> <<10>>],
     [customer_id |-> <<2>>, policy_number |-> <<"P">>, premium |-> Null],
     [customer_id |-> <<3>>, policy_number |-> <<"P">>, premium |-> <<30>>],
     [customer_id |-> <<3>>, policy_number |-> Null, premium |-> <<10>>],
     [customer_id |-> Null, policy_number |-> <<"P">>, premium |-> <<10>>]}

PoliciesFrames ==
    {[cols |-> {"customer_id", "policy_number", "premium"}, rows |-> rs] :
        rs \in TuplesUpTo(PolicyRows, MaxPolicies)}

\* The values of a mapping in ascending order, each as often as it occurs.
RECURSIVE SortedValues(_)
SortedValues(f) ==
    IF DOMAIN f = {} THEN <<>>
    ELSE LET k == CHOOSE x \in DOMAIN f : \A y \in DOMAIN f : f[x] <= f[y]
         IN  <<f[k]>> \o SortedValues([x \in DOMAIN f \ {k} |-> f[x]])

\* Five times Series.quantile(k / 5) with linear interpolation; Null (NaN)
\* for the empty series.
QuantileTimes5(f, k) ==
    LET s == SortedValues(f)
        pos == (Len(s) - 1) * k
        i == (pos \div 5) + 1
        frac == pos % 5
    IN  IF s = <<>> THEN Null
        ELSE IF frac = 0 THEN <<5 * s[i]>>
        ELSE <<5 * s[i] + frac * (s[i + 1] - s[i])>>

\* x > q and x <= q for a quantile q; a comparison with NaN is false.
OverQuantile(x, q) == q # Null /\ 5 * x > q[1]
UpToQuantile(x, q) == q # Null /\ 5 * x <= q[1]

\* full_profile.groupby('user_id')['premium'].sum(): the null key has no
\* group, the null premium adds nothing.
CustomerPremiums(full_profile) ==
    LET keys == {full_profile.rows[i].user_id[1] :
                    i \in NonNullRows(full_profile, "user_id")}
    IN  [u \in keys |->
            SumOver(full_profile, "premium",
                    {i \in DOMAIN full_profile.rows : full_profile.rows[i].user_id = <<u>>})]

HighValueCustomers(customer_premiums) ==
    Cardinality({u \in DOMAIN customer_premiums :
        OverQuantile(customer_premiums[u], QuantileTimes5(customer_premiums, 4))})

\* A medium tier that leaves out the customer at the 80th percentile (the
\* behaviour C28 excludes).
MediumValueCustomersBelow(customer_premiums) ==
    Cardinality({u \in DOMAIN customer_premiums :
        /\ OverQuantile(customer_premiums[u], QuantileTimes5(customer_premiums, 2))
        /\ UpToQuantile(customer_premiums[u], QuantileTimes5(customer_premiums, 4))
        /\ 5 * customer_premiums[u] # QuantileTimes5(customer_premiums, 4)[1]})

MediumValueCustomers(customer_premiums) ==
    Cardinality({u \in DOMAIN customer_premiums :
        /\ OverQuantile(customer_premiums[u], QuantileTimes5(customer_premiums, 2))
        /\ UpToQuantile(customer_premiums[u], QuantileTimes5(customer_premiums, 4))})

LowValueCustomers(customer_premiums) ==
    Cardinality({u \in DOMAIN customer_premiums :
        UpToQuantile(customer_premiums[u], QuantileTimes5(customer_premiums, 2))})

\* The number of customers that hold a policy, each counted once (the
\* behaviour C27 excludes).
CustomersWithPoliciesDistinct(full_profile) ==
    Cardinality({full_profile.rows[i].user_id :
                    i \in NonNullRows(full_profile, "policy_number")})

\* len(full_profile[full_profile['policy_number'].notna()])
CustomersWithPolicies(full_profile) ==
    Cardinality(NonNullRows(full_profile, "policy_number"))

\* len(full_profile[full_profile['policy_number'].notna()]), in the summary.
TotalPolicies(full_profile) ==
    Cardinality(NonNullRows(full_profile, "policy_number"))

\* The summary and the customer value analysis of the report; rates and
\* averages in hundredths.
CustomerPolicyProfile(users_df, clients_df, policies_df) ==
    LET user_client_df ==
            Merge(users_df, clients_df, "id", "user_id", "inner", "_user", "_client")
        full_profile ==
            Merge(user_client_df, policies_df, "user_id", "customer_id", "left", "", "_policy")
        total_customers == Len(user_client_df.rows)
        customers_with_policies == CustomersWithPolicies(full_profile)
        customer_premiums == CustomerPremiums(full_profile)
    IN  [summary |->
            [total_customers |-> total_customers,
             customers_with_policies |-> customers_with_policies,
             penetration_rate |->
                 IF total_customers > 0
                 THEN Round2(customers_with_policies, total_customers, 100) ELSE 0,
             total_policies |-> TotalPolicies(full_profile),
             avg_policies_per_customer |->
                 IF customers_with_policies > 0
                 THEN Round2(TotalPolicies(full_profile), customers_with_policies, 1)
                 ELSE 0],
         customer_value_analysis |->
            [high_value_customers |-> HighValueCustomers(customer_premiums),
             medium_value_customers |-> MediumValueCustomers(customer_premiums),
             low_value_customers |-> LowValueCustomers(customer_premiums)]]

\* get_customer_policy_profile on three loaded tables.
ProfileCustomers ==
    /\ phase = "idle"
    /\ \E users_df \in UsersFrames, clients_df \in ClientsFrames,
          policies_df \in PoliciesFrames :
         Apply("get_customer_policy_profile",
               [users |-> users_df, clients |-> clients_df, policies |-> policies_df],
               CustomerPolicyProfile(users_df, clients_df, policies_df))

NextProfile ==
    \/ ProfileCustomers
    \/ Finish

SpecProfile == Init /\ [][NextProfile]_vars

(***************************************************************************)
(* Profile properties, over SpecProfile.                                   *)
(***************************************************************************)
Profiled == phase = "done" /\ fn = "get_customer_policy_profile"

\* The customers of the tables: the users that a client row refers to.
DistinctCustomers ==
    {c \in CustomerIds :
        /\ \E i \in DOMAIN args.users.rows : args.users.rows[i].id = <<c>>
        /\ \E i \in DOMAIN args.clients.rows : args.clients.rows[i].user_id = <<c>>}

\* The policies that customer c holds under a policy number.
PoliciesHeldBy(c) ==
    {i \in DOMAIN args.policies.rows :
        /\ args.policies.rows[i].customer_id = <<c>>
        /\ ~IsNull(args.policies.rows[i].policy_number)}

\* C26: customers_with_policies never exceeds total_customers and the
\* penetration rate lies between 0 and 100, also when one customer holds
\* several policies.
C26_PenetrationWithinBounds ==
    Profiled =>
        /\ value.summary.customers_with_policies <= value.summary.total_customers
        /\ value.summary.penetration_rate >= 0
        /\ value.summary.penetration_rate <= 10000

\* C27: total_policies equals customers_with_policies and
\* avg_policies_per_customer is 0 or exactly 1.
C27_PoliciesEqualCustomersWithPolicies ==
    Profiled =>
        /\ value.summary.total_policies = value.summary.customers_with_policies
        /\ value.summary.avg_policies_per_customer \in {0, 100}
        /\ value.summary.avg_policies_per_customer = 0
              <=> value.summary.customers_with_policies = 0

C27_Witness ==
    /\ Profiled
    /\ \E c \in DistinctCustomers : Cardinality(PoliciesHeldBy(c)) = 2
    /\ Cardinality(DistinctCustomers) = 1
    /\ value.summary.total_policies = 2
    /\ value.summary.customers_with_policies = 2
    /\ value.summary.avg_policies_per_customer = 100

\* C28: the high, medium and low tiers count every customer once: their
\* sum is the number of distinct user_ids of the profile, and the customer
\* of the lowest premium total is in the low tier.
C28_TiersPartitionCustomers ==
    Profiled =>
        /\ value.customer_value_analysis.high_value_customers
              + value.customer_value_analysis.medium_value_customers
              + value.customer_value_analysis.low_value_customers
            = Cardinality(DistinctCustomers)
        /\ DistinctCustomers # {} =>
              value.customer_value_analysis.low_value_customers >= 1

C28_Witness ==
    /\ Profiled
    /\ Cardinality(DistinctCustomers) = 3
    /\ value.customer_value_analysis.high_value_customers = 1
    /\ value.customer_value_analysis.medium_value_customers = 1
    /\ value.customer_value_analysis.low_value_customers = 1

(***************************************************************************)
(* SpecLoad: the loads of a call. The endpoints of Spec name registered    *)
(* tables; execute_cross_database_join takes the names of its two tables   *)
(* from its caller.                                                        *)
(***************************************************************************)
\* A side of a join: a registered table, a table the registry lacks, a
\* database the getter does not know.
JoinSides ==
    {<<"mysql", "users">>, <<"postgresql", "policies">>,
     <<"mysql", "quotes">>, <<"oracle", "users">>}

Registered(req) ==
    /\ req[1] \in DOMAIN DataPaths
    /\ req[2] \in DOMAIN DataPaths[req[1]]

\* The if / elif chain of execute_cross_database_join on one side.
LoadSide(db, table, objects) ==
    IF db \notin DOMAIN DataPaths
    THEN [ok |-> FALSE, contacted |-> <<>>,
          error |-> <<"Invalid db: ", db>>,
          df |-> [cols |-> {}, rows |-> 0]]
    ELSE GetData(db, table, objects)

\* execute_cross_database_join: the left load, the right load, pd.merge.
CrossDatabaseJoin(left, right, left_key, right_key, objects) ==
    LET prefix == "Cross-database join failed: "
        l == LoadSide(left[1], left[2], objects)
        r == LoadSide(right[1], right[2], objects)
        join == [left |-> left[2], right |-> right[2],
                 left_on |-> left_key, right_on |-> right_key]
    IN  IF ~l.ok
        THEN [loaded |-> l.contacted] @@ Raised(prefix, l.error, <<>>)
        ELSE IF ~r.ok
        THEN [loaded |-> l.contacted \o r.contacted] @@ Raised(prefix, r.error, <<>>)
        ELSE IF left_key \notin l.df.cols
        THEN [loaded |-> l.contacted \o r.contacted]
             @@ Raised(prefix, KeyError(left_key), <<>>)
        ELSE IF right_key \notin r.df.cols
        THEN [loaded |-> l.contacted \o r.contacted]
             @@ Raised(prefix, KeyError(right_key), <<>>)
        ELSE [loaded |-> l.contacted \o r.contacted]
             @@ Returned(Report({"rows"}), <<join>>)

\* s3_manager.execute_cross_database_join(left_db, left_table, left_key,
\* right_db, right_table, right_key)
execute_cross_database_join_loads ==
    /\ phase = "idle"
    /\ \E left \in JoinSides, right \in JoinSides, right_key \in {"id", "customer_id"} :
         LET tables == {s[2] : s \in {t \in {left, right} : Registered(t)}}
         IN  \E st \in Statuses(tables) :
             \E D \in AbsentChoices(Readable(tables, st)) :
             \E rw \in RowCounts(tables, st) :
               LET objects == Bucket(tables, st, D, rw)
                   r == CrossDatabaseJoin(left, right, "id", right_key, objects)
               IN  /\ phase' = "done"
                   /\ call' = "execute_cross_database_join"
                   /\ store' = objects
                   /\ loaded' = r.loaded
                   /\ joined' = r.joined
                   /\ outcome' = r.outcome
                   /\ result' = r.result
                   /\ message' = r.message
                   /\ response' = NoResponse
                   /\ fn' = fn
                   /\ args' = [left |-> left, right |-> right]
                   /\ value' = value
                   /\ UNCHANGED binVars

NextLoad ==
    \/ get_cross_customer_policy_profile
    \/ get_cross_agent_performance
    \/ get_cross_claims_vs_policies
    \/ get_cassandra_claims_analysis
    \/ get_cassandra_claims_payments_correlation
    \/ get_postgresql_product_analysis
    \/ get_postgresql_product_profitability
    \/ execute_cross_database_join_loads
    \/ Finish

SpecLoad == Init /\ [][NextLoad]_vars

(***************************************************************************)
(* Load properties, over SpecLoad.                                         *)
(***************************************************************************)
\* The tables a call asks for, in the order of its statements.
RequestedLoads ==
    CASE call = "get_customer_policy_profile" -> CustomerProfileLoads
      [] call = "get_agent_performance_across_systems" -> AgentPerformanceLoads
      [] call = "get_claims_vs_policies_analysis" -> ClaimsVsPoliciesLoads
      [] call = "get_claims_analysis" -> << <<"cassandra", "reclamos">> >>
      [] call = "get_claims_payments_correlation" -> ClaimsPaymentsLoads
      [] call = "get_product_analysis" -> << <<"postgresql", "products">> >>
      [] call = "get_product_profitability_analysis" -> ProfitabilityLoads
      [] call = "execute_cross_database_join" -> <<args.left, args.right>>

\* The load of req fails: no path for it, or an object that cannot be read.
LoadFails(req) ==
    \/ ~Registered(req)
    \/ store[DataPaths[req[1]][req[2]]].status # "ok"

\* The position of the first load that fails, 0 if none does.
FirstFailing ==
    LET F == {i \in DOMAIN RequestedLoads : LoadFails(RequestedLoads[i])}
    IN  IF F = {} THEN 0 ELSE CHOOSE i \in F : \A j \in F : i <= j

\* The number of loads that reach the store.
Contacts ==
    IF FirstFailing = 0 THEN Len(RequestedLoads)
    ELSE IF Registered(RequestedLoads[FirstFailing]) THEN FirstFailing
    ELSE FirstFailing - 1

\* C29: the store is asked for the tables of a call one after another in the
\* order of the call; after a load that fails no later table is asked for, no
\* join is made and no result is built; a table without a registered path
\* fails without the store being asked.
C29_LoadsInOrderStopAtFailure ==
    Called =>
        /\ loaded = [i \in 1..Contacts |->
                        DataPaths[RequestedLoads[i][1]][RequestedLoads[i][2]]]
        /\ FirstFailing # 0 =>
              /\ outcome = "raised"
              /\ joined = <<>>
              /\ result = NoResult
        /\ joined # <<>> => Len(loaded) = Len(RequestedLoads)

C29_Witness ==
    /\ Called
    /\ call = "execute_cross_database_join"
    /\ ~Registered(args.left)
    /\ args.left[1] \in DOMAIN DataPaths
    /\ Registered(args.right)
    /\ store[DataPaths[args.right[1]][args.right[2]]].status = "ok"
    /\ loaded = <<>>
    /\ outcome = "raised"
====
